---- MODULE Spec2Model ----
(***************************************************************************)
(* Model of azure-subnet-summary: the IPv4/CIDR arithmetic, the gap        *)
(* finder, the de-duplication engine, the VNet overlap detector and its    *)
(* filter, the grouping into VNets and the paging of the graph query.      *)
(*                                                                         *)
(* Addresses are the u32 value of an Ipv4Addr.  TLC integers are 32-bit    *)
(* signed, so the model keeps every address below 2^28; a u64 is kept as   *)
(* two 16-bit limbs, and the operators with the suffix _u32 compute on     *)
(* all 32 bits in the same way.  The shift of ip_after_subnet is modelled  *)
(* for prefix                                                              *)
(* 0, where it overflows, and for prefixes of 2 and above; inside that     *)
(* window no other u32 operation of the code can overflow, and the         *)
(* operators below compute exactly what the code computes.                 *)
(***************************************************************************)
EXTENDS Integers, Sequences, FiniteSets, TLC

VARIABLES
    \* find_biggest_subnet called on its own (gap_finder.rs tests); fb_mask is
    \* its local next_mask
    fb_in, fb_out, fb_pc, fb_mask,
    \* output::csv::subnet_print driving process_subnet_row
    gf_data, gf_i, gf_start, next_ip, vnet_previous_cidr, gap_cidr_mask,
    output_rows, gf_pc,
    \* processing::dedup::de_duplicate_subnets
    dd_input, dd_ignore, dd_data, dd_prev, dd_pc,
    \* processing::overlap::find_overlapping_vnets
    ov_data, ov_conflicts, ov_first, ov_pc,
    \* processing::overlap::filter_overlapping_vnets
    fl_data, fl_out, fl_first, fl_pc,
    \* processing::overlap::filter_excluded_vnet_cidrs
    ex_data, ex_excluded, ex_out, ex_pc,
    \* the functions of models::ipv4 called on their own
    ip_call, ip_ret, ip_pc,
    \* processing::vnet::get_vnets
    vn_data, vn_vnets, vn_pc,
    \* azure::graph::run_az_cli_graph: skip_token_param, the commands run so
    \* far, data.data, count_blocks_returned
    skip_token_param, gr_commands, gr_data, count_blocks_returned, gr_pc,
    \* whether the build checks integer overflow (debug) or not (release)
    overflow_checks

fbVars == <<fb_in, fb_out, fb_pc, fb_mask>>
gfVars == <<gf_data, gf_i, gf_start, next_ip, vnet_previous_cidr, gap_cidr_mask,
            output_rows, gf_pc>>
ddVars == <<dd_input, dd_ignore, dd_data, dd_prev, dd_pc>>
ovVars == <<ov_data, ov_conflicts, ov_first, ov_pc>>
flVars == <<fl_data, fl_out, fl_first, fl_pc>>
exVars == <<ex_data, ex_excluded, ex_out, ex_pc>>
ipVars == <<ip_call, ip_ret, ip_pc>>
vnVars == <<vn_data, vn_vnets, vn_pc>>
grVars == <<skip_token_param, gr_commands, gr_data, count_blocks_returned, gr_pc>>
vars == <<fbVars, gfVars, ddVars, ovVars, flVars, exVars, ipVars, vnVars, grVars,
          overflow_checks>>

----------------------------------------------------------------------------
(* Result<T, E> and Option<T> *)

Ok(x) == [ok |-> TRUE, v |-> x]
Err == [ok |-> FALSE]
\* a panic inside a function that returns a Result
Panic == [ok |-> FALSE, panic |-> TRUE]
None == <<>>
Some(x) == <<x>>
is_some(o) == o # <<>>
unwrap(o) == o[1]
\* Result::unwrap of an Ok
unwrap_ok(r) == r.v

----------------------------------------------------------------------------
(* models/ipv4.rs *)

MAX_LENGTH == 32

Ipv4(a, m) == [addr |-> a, mask |-> m]

\* Ipv4Addr::new(a, b, c, d) as its u32 value
Ipv4Addr(a, b, c, d) == ((a * 256 + b) * 256 + c) * 256 + d

\* u32::trailing_zeros
RECURSIVE trailing_zeros(_)
trailing_zeros(n) ==
    IF n = 0 THEN 32
    ELSE IF n % 2 = 1 THEN 0
    ELSE 1 + trailing_zeros(n \div 2)

\* (bits >> right_len) << right_len
cut_addr(addr, len) ==
    IF len > MAX_LENGTH THEN Err
    ELSE LET right_len == MAX_LENGTH - len
         IN Ok((addr \div (2 ^ right_len)) * (2 ^ right_len))

\* (addr & mask) | !mask
broadcast_addr(addr, len) ==
    IF len > MAX_LENGTH THEN Err
    ELSE LET right_len == MAX_LENGTH - len
             network_bits == (addr \div (2 ^ right_len)) * (2 ^ right_len)
         IN Ok(network_bits + ((2 ^ right_len) - 1))

\* subnet_size = 1 << (MAX_LENGTH - cidr) is a u32 shift: for cidr = 0 the
\* shift count is 32, which panics where overflow is checked and is taken
\* modulo 32 where it is not (subnet_size = 1); get_cidr_mask(0) is 0, so
\* network_bits is 0.  For cidr >= 2 the sum network_bits.checked_add(
\* subnet_size) stays below 2^32 inside the model's address window, so
\* checked_add returns Some.
ip_after_subnet(addr, cidr) ==
    IF cidr > MAX_LENGTH THEN Err
    ELSE IF cidr = 0 THEN (IF overflow_checks THEN Panic ELSE Ok(0 + 1))
    ELSE LET subnet_size == 2 ^ (MAX_LENGTH - cidr)
             network_bits == (addr \div subnet_size) * subnet_size
         IN Ok(network_bits + subnet_size)

next_subnet_ipv4(ipv4, mask) ==
    LET current_mask == ipv4.mask
        new_mask == IF is_some(mask) THEN unwrap(mask) ELSE current_mask
    IN  IF new_mask <= current_mask
        THEN LET next_subnet == ip_after_subnet(ipv4.addr, new_mask)
             IN IF next_subnet.ok THEN Ok(Ipv4(next_subnet.v, new_mask)) ELSE Err
        ELSE LET current_broadcast == broadcast_addr(ipv4.addr, current_mask)
             IN IF ~current_broadcast.ok THEN Err
                ELSE LET next_subnet == ip_after_subnet(current_broadcast.v, new_mask)
                     IN IF next_subnet.ok THEN Ok(Ipv4(next_subnet.v, new_mask))
                        ELSE Err

\* a u64 as two limbs: the value is hi * 2^16 + lo, 0 <= lo < 2^16
U64(h, l) == [hi |-> h, lo |-> l]

\* 1u64 << n, n <= 32
shl_u64(n) == U64(IF n >= 16 THEN 2 ^ (n - 16) ELSE 0, IF n < 16 THEN 2 ^ n ELSE 0)

\* x - n on u64, n < 2^16; num_az_hosts calls it with x >= 8 and n = 5
sub_u64(x, n) ==
    IF x.lo >= n THEN U64(x.hi, x.lo - n) ELSE U64(x.hi - 1, x.lo + 65536 - n)

\* the host count guarded only against prefixes above MAX_LENGTH
num_az_hosts_unguarded(len) ==
    IF len > MAX_LENGTH THEN Err
    ELSE Ok(sub_u64(shl_u64(MAX_LENGTH - len), 5))

num_az_hosts(len) ==
    IF len >= MAX_LENGTH - 2 THEN Err
    ELSE Ok(sub_u64(shl_u64(MAX_LENGTH - len), 5))

\* an alignment that counts one trailing zero bit less
lo_mask_one_less(ip) == 32 - trailing_zeros(ip) + 1

lo_mask(ip) == 32 - trailing_zeros(ip)

\* Ipv4::hi and Ipv4::lo: Err stands for the panic of unwrap_or_else
hi(ipv4) == broadcast_addr(ipv4.addr, ipv4.mask)
lo(ipv4) == cut_addr(ipv4.addr, ipv4.mask)

\* Ipv4::broadcast
broadcast(ipv4) ==
    LET b == broadcast_addr(ipv4.addr, ipv4.mask)
    IN IF b.ok THEN Ok(Ipv4(b.v, ipv4.mask)) ELSE Err

\* Ipv4::contains(ip); called only on prefixes <= 32 here
contains(ipv4, ip) == ip >= lo(ipv4).v /\ ip <= hi(ipv4).v

\* derived Ord on Ipv4 { addr, mask }: lexicographic on the fields in order
Ipv4Less(a, b) == a.addr < b.addr \/ (a.addr = b.addr /\ a.mask < b.mask)

\* an order that compares the mask before the address
cmp_mask_first(a, b) ==
    IF a.mask < b.mask THEN "Less"
    ELSE IF a.mask > b.mask THEN "Greater"
    ELSE IF a.addr < b.addr THEN "Less"
    ELSE IF a.addr > b.addr THEN "Greater"
    ELSE "Equal"

\* Ord::cmp derived on Ipv4 { addr, mask }; partial_cmp is Some(cmp)
cmp(a, b) ==
    IF a.addr < b.addr THEN "Less"
    ELSE IF a.addr > b.addr THEN "Greater"
    ELSE IF a.mask < b.mask THEN "Less"
    ELSE IF a.mask > b.mask THEN "Greater"
    ELSE "Equal"

\* PartialEq::eq
eq(a, b) == a.addr = b.addr /\ a.mask = b.mask

\* A CIDR text is kept as what split('/') and the parsers see of it: pad
\* tells whether blanks surround it, parts are the pieces between the
\* slashes.  An address piece is the list of its dot-separated numbers, a
\* mask piece is [digits |-> TRUE, n |-> its value] or, when it is not a
\* decimal number, [digits |-> FALSE].
CidrText(pad, parts) == [pad |-> pad, parts |-> parts]

\* Ipv4Addr::from_str: four numbers of at most 255
parse_addr(piece) ==
    IF Len(piece) = 4 /\ \A k \in 1..4 : piece[k] <= 255
    THEN Ok(Ipv4Addr(piece[1], piece[2], piece[3], piece[4]))
    ELSE Err

\* u8::from_str
parse_u8(piece) ==
    IF piece.digits /\ piece.n <= 255 THEN Ok(piece.n) ELSE Err

\* Ipv4::new: trim() removes the blanks before the text is split
new(addr_cidr) ==
    IF Len(addr_cidr.parts) # 2 THEN Err
    ELSE LET addr == parse_addr(addr_cidr.parts[1])
             mask == parse_u8(addr_cidr.parts[2])
         IN IF ~addr.ok THEN Err
            ELSE IF ~mask.ok THEN Err
            ELSE IF mask.v > MAX_LENGTH THEN Err
            ELSE Ok(Ipv4(addr.v, mask.v))

\* Deserialize for Ipv4: no trim (a blank makes the first and the last piece
\* unparsable) and no check of the mask
deserialize(text) ==
    IF Len(text.parts) # 2 THEN Err
    ELSE LET addr == IF text.pad THEN Err ELSE parse_addr(text.parts[1])
             mask == IF text.pad THEN Err ELSE parse_u8(text.parts[2])
         IN IF ~addr.ok THEN Err
            ELSE IF ~mask.ok THEN Err
            ELSE Ok(Ipv4(addr.v, mask.v))

----------------------------------------------------------------------------
(* models/ipv4.rs on all 32 bits: an address is held as the two 16-bit halves
   of its u32, so that the addresses from 128.0.0.0 on and the sums past
   255.255.255.255 are there *)

U32(h, l) == [hi |-> h, lo |-> l]

\* (bits >> n) << n on a 32-bit value widened to u64, n in 0..32
shr_shl(bits, n) ==
    IF n >= 32 THEN U32(0, 0)
    ELSE IF n >= 16 THEN U32((bits.hi \div 2 ^ (n - 16)) * 2 ^ (n - 16), 0)
    ELSE U32(bits.hi, (bits.lo \div 2 ^ n) * 2 ^ n)

\* & on n-bit values
RECURSIVE and_bits(_, _, _)
and_bits(a, b, n) ==
    IF n = 0 THEN 0
    ELSE (a % 2) * (b % 2) + 2 * and_bits(a \div 2, b \div 2, n - 1)

bitand(x, y) == U32(and_bits(x.hi, y.hi, 16), and_bits(x.lo, y.lo, 16))

\* x | !mask
or_not(x, mask) ==
    LET nh == 65535 - mask.hi
        nl == 65535 - mask.lo
    IN U32(x.hi + nh - and_bits(x.hi, nh, 16), x.lo + nl - and_bits(x.lo, nl, 16))

\* u32::checked_add
checked_add(x, y) ==
    LET l == x.lo + y.lo
        h == x.hi + y.hi + l \div 65536
    IN IF h > 65535 THEN None ELSE Some(U32(h, l % 65536))

\* Ord of Ipv4Addr: the order of the u32 values
le_u32(x, y) == x.hi < y.hi \/ (x.hi = y.hi /\ x.lo <= y.lo)

get_cidr_mask(len) ==
    IF len > MAX_LENGTH THEN Err
    ELSE Ok(shr_shl(U32(65535, 65535), MAX_LENGTH - len))

\* the shift taken by len itself
cut_addr_by_len(addr, len) ==
    IF len > MAX_LENGTH THEN Err
    ELSE Ok(shr_shl(addr, len))

\* right_len = MAX_LENGTH - len; (bits >> right_len) << right_len
cut_addr_u32(addr, len) ==
    IF len > MAX_LENGTH THEN Err
    ELSE Ok(shr_shl(addr, MAX_LENGTH - len))

broadcast_addr_u32(addr, len) ==
    IF len > MAX_LENGTH THEN Err
    ELSE LET mask == get_cidr_mask(len).v
             network_bits == bitand(addr, mask)
         IN Ok(or_not(network_bits, mask))

\* 1 << (MAX_LENGTH - cidr) on u32: a shift by 32 panics where overflow is
\* checked and shifts by 32 % 32 = 0 where it is not
ip_after_subnet_u32(addr, cidr) ==
    IF cidr > MAX_LENGTH THEN Err
    ELSE IF MAX_LENGTH - cidr >= 32 /\ overflow_checks THEN Panic
    ELSE LET shift == (MAX_LENGTH - cidr) % 32
             subnet_size == IF shift >= 16 THEN U32(2 ^ (shift - 16), 0)
                            ELSE U32(0, 2 ^ shift)
             network_bits == bitand(addr, get_cidr_mask(cidr).v)
             next_subnet_bits == checked_add(network_bits, subnet_size)
         IN IF is_some(next_subnet_bits) THEN Ok(unwrap(next_subnet_bits)) ELSE Err

\* lo(), hi() and contains(ip) of an Ipv4; lo() and hi() panic on an Err
bounds_u32(ipv4, ip) ==
    LET l == cut_addr_u32(ipv4.addr, ipv4.mask)
        h == broadcast_addr_u32(ipv4.addr, ipv4.mask)
    IN IF ~l.ok \/ ~h.ok THEN Panic
       ELSE Ok([lo |-> l.v, hi |-> h.v,
                contains |-> le_u32(l.v, ip) /\ le_u32(ip, h.v)])

----------------------------------------------------------------------------
(* Display and Ord of the model's values *)

\* Display of Ipv4Addr: the four octets of the u32, most significant first
octets(addr) ==
    <<addr \div 16777216, (addr \div 65536) % 256, (addr \div 256) % 256, addr % 256>>

\* a Display that writes the address with its last octet cleared
fmt_network(ipv4) ==
    CidrText(FALSE, <<octets((ipv4.addr \div 256) * 256),
                      [digits |-> TRUE, n |-> ipv4.mask, zeros |-> 0]>>)

\* Display for Ipv4: write!(f, "{}/{}", self.addr, self.mask); the text has
\* no blanks around it and the mask is written without leading zeros
fmt(ipv4) ==
    CidrText(FALSE, <<octets(ipv4.addr),
                      [digits |-> TRUE, n |-> ipv4.mask, zeros |-> 0]>>)

\* Ord on Option<Ipv4>: None sorts before every Some
OptIpv4Less(a, b) ==
    IF ~is_some(a) THEN is_some(b)
    ELSE is_some(b) /\ Ipv4Less(unwrap(a), unwrap(b))

----------------------------------------------------------------------------
(* processing/gap_finder.rs: find_biggest_subnet *)

\* the loop of find_biggest_subnet; Err is the panic of Ipv4::hi once
\* next_mask has passed 32
RECURSIVE find_biggest_subnet_loop(_, _, _)
find_biggest_subnet_loop(start_ip, next_mask, below_lo) ==
    LET next_hi == hi(Ipv4(start_ip, next_mask))
    IN  IF ~next_hi.ok THEN Err
        ELSE IF next_hi.v >= below_lo
             THEN find_biggest_subnet_loop(start_ip, next_mask + 1, below_lo)
             ELSE Ok(next_mask)

\* a loop body that leaves next_mask as it is
next_mask_kept(next_mask) == next_mask

\* next_mask += 1
next_mask_incremented(next_mask) == next_mask + 1

\* the start of the loop before the alignment fix: start_mask alone
first_mask_unaligned(start_ip, start_mask) == start_mask

\* start_mask.max(min_mask_for_alignment)
first_mask(start_ip, start_mask) ==
    LET min_mask_for_alignment == lo_mask(start_ip)
    IN IF start_mask >= min_mask_for_alignment THEN start_mask
       ELSE min_mask_for_alignment

find_biggest_subnet(start_ip, start_mask, below_subnet_cidr) ==
    IF start_mask > 32 THEN Err
    ELSE IF ~lo(below_subnet_cidr).ok THEN Err
    ELSE LET r == find_biggest_subnet_loop(start_ip,
                      first_mask(start_ip, start_mask), lo(below_subnet_cidr).v)
         IN IF r.ok /\ r.v <= 32 THEN r ELSE Err

----------------------------------------------------------------------------
(* models/subnet.rs: the fields of Subnet the modelled code reads *)

Subnet(vn, vc, sn, sc, sid, sname, idx) ==
    [vnet_name |-> vn, vnet_cidr |-> vc, subnet_name |-> sn, subnet_cidr |-> sc,
     location |-> "region", subscription_id |-> sid, subscription_name |-> sname,
     src_index |-> idx, block_id |-> 0]

\* Ord on the String values the model uses: their byte order
SortedStrings == <<"Sub", "Sub One", "Sub Three", "Sub Two", "sub-1", "sub-2", "sub-3">>
StrRank(x) == CHOOSE k \in 1..Len(SortedStrings) : SortedStrings[k] = x
StrLess(a, b) == StrRank(a) < StrRank(b)

----------------------------------------------------------------------------
(* processing/gap_finder.rs: process_subnet_row *)

\* format_vnet_cidr: the CIDR texts joined by ","; kept as the list of CIDRs
\* (Display of Ipv4 writes addr and mask unchanged)
format_vnet_cidr(cidrs) == [text |-> "cidrs", cidrs |-> cidrs]
NoneText == [text |-> "None", cidrs |-> <<>>]

\* a row numbered by the index itself
create_row_index_only(s, i) ==
    [j |-> i, gap |-> "None", subnet_cidr |-> None, broadcast |-> None,
     az_hosts |-> U64(0, 0), subnet_name |-> s.subnet_name,
     subscription_name |-> s.subscription_name,
     vnet_cidr |-> format_vnet_cidr(s.vnet_cidr), vnet_name |-> s.vnet_name,
     subscription_id |-> s.subscription_id]

\* create_row_from_subnet(s, i, "None", "none", "none", 0); i counts from 0
create_row_from_subnet(s, i) ==
    [j |-> i + 1, gap |-> "None", subnet_cidr |-> None, broadcast |-> None,
     az_hosts |-> U64(0, 0), subnet_name |-> s.subnet_name,
     subscription_name |-> s.subscription_name,
     vnet_cidr |-> format_vnet_cidr(s.vnet_cidr), vnet_name |-> s.vnet_name,
     subscription_id |-> s.subscription_id]

\* a gap row that always carries the record's VNet and subscription
gap_in_vnet_always(s, ip) == TRUE

\* s.vnet_cidr.iter().any(|vnet| vnet.contains(next_ip))
gap_in_vnet(s, ip) ==
    \E k \in 1..Len(s.vnet_cidr) : contains(s.vnet_cidr[k], ip)

gap_row(s, next_subnet, bcast, hosts) ==
    LET in_vnet == gap_in_vnet(s, next_subnet.addr)
    IN [j |-> 0, gap |-> "-gap-", subnet_cidr |-> Some(next_subnet),
        broadcast |-> Some(bcast), az_hosts |-> hosts, subnet_name |-> "None",
        subscription_name |-> IF in_vnet THEN s.subscription_name ELSE "None",
        vnet_cidr |-> IF in_vnet THEN format_vnet_cidr(s.vnet_cidr) ELSE NoneText,
        vnet_name |-> IF in_vnet THEN s.vnet_name ELSE "None",
        subscription_id |-> IF in_vnet THEN s.subscription_id ELSE "None"]

\* rows.push(SubnetPrintRow { j: i + 1, ... }) of the real subnet
subnet_row(s, i, subnet_cidr, bcast, hosts) ==
    [j |-> i + 1, gap |-> "Sub", subnet_cidr |-> Some(subnet_cidr),
     broadcast |-> Some(bcast), az_hosts |-> hosts, subnet_name |-> s.subnet_name,
     subscription_name |-> s.subscription_name,
     vnet_cidr |-> format_vnet_cidr(s.vnet_cidr), vnet_name |-> s.vnet_name,
     subscription_id |-> s.subscription_id]

\* "while next_ip < subnet_cidr.lo()": the gap rows and the next_ip it ends
\* with; Err is any panic of the body (unwrap of an Err, a failed assert)
RECURSIVE gap_loop(_, _, _, _, _)
gap_loop(s, subnet_cidr, ip, default_cidr_mask, rows) ==
    IF ~lo(subnet_cidr).ok THEN Err
    ELSE IF ~(ip < lo(subnet_cidr).v) THEN Ok([next_ip |-> ip, rows |-> rows])
    ELSE LET next_mask == find_biggest_subnet(ip, default_cidr_mask, subnet_cidr)
         IN IF ~next_mask.ok THEN Err
            ELSE LET next_subnet == Ipv4(ip, next_mask.v)
                     bcast == broadcast(next_subnet)
                     hosts == num_az_hosts(next_mask.v)
                     after == next_subnet_ipv4(next_subnet, None)
                 IN IF ~bcast.ok \/ ~hosts.ok \/ ~after.ok THEN Err
                    ELSE gap_loop(s, subnet_cidr, lo(after.v).v, default_cidr_mask,
                                  Append(rows, gap_row(s, next_subnet, bcast.v.addr,
                                                       hosts.v)))

\* assert!(next_ip <= subnet_cidr.addr)
entry_check(ip, subnet_cidr) == ip <= subnet_cidr.addr

\* next_ip after the real row when the step is forced to /28 (subnet_print.rs)
advance_after_subnet_28(subnet_cidr) == next_subnet_ipv4(subnet_cidr, Some(28))

\* next_subnet_ipv4(subnet_cidr, None)
advance_after_subnet(subnet_cidr) == next_subnet_ipv4(subnet_cidr, None)

\* (next_ip, vnet_previous_cidr, rows), or Err when the call panics
process_subnet_row(s, i, ip, prev_cidr, default_cidr_mask) ==
    IF ~is_some(s.subnet_cidr)
    THEN Ok([next_ip |-> ip, vnet_previous_cidr |-> prev_cidr,
             rows |-> <<create_row_from_subnet(s, i)>>])
    ELSE LET subnet_cidr == unwrap(s.subnet_cidr)
         IN IF ~entry_check(ip, subnet_cidr) THEN Err
            ELSE LET gaps == gap_loop(s, subnet_cidr, ip, default_cidr_mask, <<>>)
                 IN IF ~gaps.ok THEN Err
                    ELSE IF Len(s.vnet_cidr) = 0 THEN Err
                    ELSE LET bcast == broadcast(subnet_cidr)
                             hosts == num_az_hosts(subnet_cidr.mask)
                             after == advance_after_subnet(subnet_cidr)
                         IN IF ~bcast.ok \/ ~hosts.ok \/ ~after.ok THEN Err
                            ELSE Ok([next_ip |-> lo(after.v).v,
                                     vnet_previous_cidr |-> s.vnet_cidr[1],
                                     rows |-> Append(gaps.v.rows,
                                         subnet_row(s, i, subnet_cidr, bcast.v.addr,
                                                    hosts.v))])

----------------------------------------------------------------------------
(* processing/dedup.rs: de_duplicate_subnets *)

default_subnet_names_to_ignore ==
    {"default", "jenkinsarm-snet", "pkrsn1ooslfxj77", "pkrsn8jufz9plf6",
     "pkrsnsnajtq3h3i", "pkrsnxocivqofa6", "orggmcmg", "restore-vm-subnet"}

\* the closure of retain with || in place of &&
keep_subnet_either(s, subnet_names_to_ignore) ==
    s.subnet_name \notin subnet_names_to_ignore \/ is_some(s.subnet_cidr)

\* the closure of data.data.retain
keep_subnet(s, subnet_names_to_ignore) ==
    s.subnet_name \notin subnet_names_to_ignore /\ is_some(s.subnet_cidr)

\* the key (s.subnet_cidr, s.subscription_id.clone()) and its tuple order
dedup_key(s) == <<s.subnet_cidr, s.subscription_id>>

\* an order of the keys that looks at the subnet_cidr only
KeyLessByCidr(a, b) == OptIpv4Less(a[1], b[1])

\* Ord of the key (Option<Ipv4>, String)
KeyLess(a, b) ==
    \/ OptIpv4Less(a[1], b[1])
    \/ (a[1] = b[1] /\ StrLess(a[2], b[2]))

\* Vec::sort_by_key is a stable sort: x goes behind every element whose key
\* is not greater than its own
RECURSIVE insert_sorted(_, _)
insert_sorted(sorted, x) ==
    IF sorted = <<>> THEN <<x>>
    ELSE IF KeyLess(dedup_key(x), dedup_key(sorted[Len(sorted)]))
         THEN Append(insert_sorted(SubSeq(sorted, 1, Len(sorted) - 1), x),
                     sorted[Len(sorted)])
         ELSE Append(sorted, x)

RECURSIVE sort_from(_, _, _)
sort_from(sorted, data, k) ==
    IF k > Len(data) THEN sorted
    ELSE sort_from(insert_sorted(sorted, data[k]), data, k + 1)

\* no sort before the dedup
sort_by_key_skipped(data) == data

sort_by_key(data) == sort_from(<<>>, data, 1)

\* a dedup that steps past the element behind each one it removes
RECURSIVE dedup_skipping_from(_, _, _)
dedup_skipping_from(kept, data, k) ==
    IF k > Len(data) THEN kept
    ELSE IF kept # <<>> /\ dedup_key(data[k]) = dedup_key(kept[Len(kept)])
         THEN IF k + 1 <= Len(data)
              THEN dedup_skipping_from(Append(kept, data[k + 1]), data, k + 2)
              ELSE kept
         ELSE dedup_skipping_from(Append(kept, data[k]), data, k + 1)

dedup_by_key_skipping(data) == dedup_skipping_from(<<>>, data, 1)

\* Vec::dedup_by_key: of each run of consecutive equal keys the first stays
RECURSIVE dedup_from(_, _, _)
dedup_from(kept, data, k) ==
    IF k > Len(data) THEN kept
    ELSE IF kept # <<>> /\ dedup_key(data[k]) = dedup_key(kept[Len(kept)])
         THEN dedup_from(kept, data, k + 1)
         ELSE dedup_from(Append(kept, data[k]), data, k + 1)

dedup_by_key(data) == dedup_from(<<>>, data, 1)

\* ignore is the Option<&Vec<&str>> argument; the function always returns Ok
de_duplicate_subnets(data, ignore) ==
    LET subnet_names_to_ignore ==
            IF is_some(ignore) THEN unwrap(ignore) ELSE default_subnet_names_to_ignore
        retained == SelectSeq(data, LAMBDA s : keep_subnet(s, subnet_names_to_ignore))
    IN dedup_by_key(sort_by_key(retained))

\* lib.rs check_for_duplicate_subnets: TRUE for Ok(()), FALSE for the Err of
\* the first key that HashSet::insert finds present
check_for_duplicate_subnets(data) ==
    \A k \in 1..Len(data) :
        \A n \in 1..(k - 1) : dedup_key(data[n]) # dedup_key(data[k])

----------------------------------------------------------------------------
(* processing/overlap.rs: find_overlapping_vnets *)

\* the key of seen_vnets
vnet_key(s) == <<s.vnet_name, s.subscription_id>>

\* a loop over the records that stops one short
scanned_but_last(data) == SubSeq(data, 1, Len(data) - 1)

\* "for subnet in &data.data"
scanned(data) == data

\* seen_vnets after the loop: per key the VnetInfo made from the first record
\* with that key, subnet_count raised once for every later one
seen_vnets(data) ==
    LET recs == scanned(data)
        keys == {vnet_key(recs[k]) : k \in 1..Len(recs)}
    IN [key \in keys |->
           LET first == CHOOSE k \in 1..Len(recs) :
                           /\ vnet_key(recs[k]) = key
                           /\ \A n \in 1..(k - 1) : vnet_key(recs[n]) # key
           IN [vnet_name |-> recs[first].vnet_name,
               vnet_cidr |-> recs[first].vnet_cidr,
               subscription_id |-> recs[first].subscription_id,
               subscription_name |-> recs[first].subscription_name,
               location |-> recs[first].location,
               subnet_count |-> Cardinality({k \in 1..Len(recs) :
                                               vnet_key(recs[k]) = key})]]

\* the pushes of one VnetInfo onto cidr_to_vnets[cidr]: one per place of cidr
\* in its vnet_cidr
RECURSIVE pushes_of(_, _, _)
pushes_of(info, cidr, k) ==
    IF k > Len(info.vnet_cidr) THEN <<>>
    ELSE (IF info.vnet_cidr[k] = cidr THEN <<info>> ELSE <<>>)
         \o pushes_of(info, cidr, k + 1)

\* cidr_to_vnets[cidr] when seen_vnets.values() yields the keys in `order`
RECURSIVE vnets_of_cidr(_, _, _, _)
vnets_of_cidr(seen, order, cidr, k) ==
    IF k > Len(order) THEN <<>>
    ELSE pushes_of(seen[order[k]], cidr, 1) \o vnets_of_cidr(seen, order, cidr, k + 1)

\* conflicts.sort_by_key(|c| c.cidr) over the distinct keys of the map
RECURSIVE sorted_cidrs(_)
sorted_cidrs(S) ==
    IF S = {} THEN <<>>
    ELSE LET least == CHOOSE c \in S : \A d \in S : ~Ipv4Less(d, c)
         IN <<least>> \o sorted_cidrs(S \ {least})

\* the orders HashMap::values may yield the keys in
KeyOrders(keys) ==
    {o \in [1..Cardinality(keys) -> keys] : \A k \in keys : \E n \in DOMAIN o : o[n] = k}

\* the conflicts, given the order in which seen_vnets.values() yields
find_overlapping_vnets(data, order) ==
    LET seen == seen_vnets(data)
        cidrs == UNION {{seen[key].vnet_cidr[k] : k \in 1..Len(seen[key].vnet_cidr)} :
                           key \in DOMAIN seen}
        conflicting == {c \in cidrs : Len(vnets_of_cidr(seen, order, c, 1)) > 1}
        sc == sorted_cidrs(conflicting)
    IN [k \in 1..Len(sc) |->
           [cidr |-> sc[k], vnets |-> vnets_of_cidr(seen, order, sc[k], 1)]]

----------------------------------------------------------------------------
(* processing/overlap.rs: filter_excluded_vnet_cidrs *)

\* "10.0.0.0/16" and "10.1.0.0/16"
default_vnet_cidrs_to_exclude ==
    <<CidrText(FALSE, <<(<<10, 0, 0, 0>>), [digits |-> TRUE, n |-> 16]>>),
      CidrText(FALSE, <<(<<10, 1, 0, 0>>), [digits |-> TRUE, n |-> 16]>>)>>

\* excluded_cidrs.iter().filter_map(|s| Ipv4::new(s).ok()): the texts that
\* do not parse are left out
RECURSIVE parsed_excluded(_, _)
parsed_excluded(excluded_cidrs, k) ==
    IF k > Len(excluded_cidrs) THEN <<>>
    ELSE (IF new(excluded_cidrs[k]).ok THEN <<new(excluded_cidrs[k]).v>> ELSE <<>>)
         \o parsed_excluded(excluded_cidrs, k + 1)

\* a test that looks at the first VNet CIDR only
should_exclude_first(subnet, excluded) ==
    /\ Len(subnet.vnet_cidr) > 0
    /\ \E n \in 1..Len(excluded) : eq(subnet.vnet_cidr[1], excluded[n])

\* subnet.vnet_cidr.iter().any(|vnet_cidr| excluded.iter().any(|e| vnet_cidr == e))
should_exclude(subnet, excluded) ==
    \E k \in 1..Len(subnet.vnet_cidr) :
        \E n \in 1..Len(excluded) : eq(subnet.vnet_cidr[k], excluded[n])

filter_excluded_vnet_cidrs(data, excluded_cidrs) ==
    LET texts == IF is_some(excluded_cidrs) THEN unwrap(excluded_cidrs)
                 ELSE default_vnet_cidrs_to_exclude
        excluded == parsed_excluded(texts, 1)
    IN Ok(SelectSeq(data, LAMBDA subnet : ~should_exclude(subnet, excluded)))

----------------------------------------------------------------------------
(* processing/overlap.rs: filter_overlapping_vnets *)

\* the comparator of sorted_vnets.sort_by: more subnets first, then the
\* smaller subscription_name
rank_before(a, b) ==
    \/ a.subnet_count > b.subnet_count
    \/ (a.subnet_count = b.subnet_count
        /\ StrLess(a.subscription_name, b.subscription_name))

\* sort_by is stable: x goes behind every element it does not come before
RECURSIVE insert_ranked(_, _)
insert_ranked(sorted, x) ==
    IF sorted = <<>> THEN <<x>>
    ELSE IF rank_before(x, Head(sorted)) THEN <<x>> \o sorted
    ELSE <<Head(sorted)>> \o insert_ranked(Tail(sorted), x)

RECURSIVE rank_from(_, _, _)
rank_from(sorted, vnets, k) ==
    IF k > Len(vnets) THEN sorted
    ELSE rank_from(insert_ranked(sorted, vnets[k]), vnets, k + 1)

sorted_vnets(conflict) == rank_from(<<>>, conflict.vnets, 1)

\* the pairs pushed when the first two of sorted_vnets are passed over
removed_but_second(conflict) ==
    LET sv == sorted_vnets(conflict)
    IN {<<sv[k].vnet_name, sv[k].subscription_id>> : k \in 3..Len(sv)}

\* the (vnet_name, subscription_id) pairs pushed for one conflict:
\* sorted_vnets.iter().skip(1)
removed_of(conflict) ==
    LET sv == sorted_vnets(conflict)
    IN {<<sv[k].vnet_name, sv[k].subscription_id>> : k \in 2..Len(sv)}

vnets_to_remove(conflicts) ==
    UNION {removed_of(conflicts[k]) : k \in 1..Len(conflicts)}

\* a retain that looks at the vnet_name of the pairs only
filter_by_vnet_name(data, order) ==
    LET conflicts == find_overlapping_vnets(data, order)
    IN IF Len(conflicts) = 0 THEN Ok(data)
       ELSE Ok(SelectSeq(data,
                         LAMBDA subnet :
                             subnet.vnet_name
                                 \notin {pair[1] : pair \in vnets_to_remove(conflicts)}))

\* the data returned, given the order in which seen_vnets.values() yields
filter_overlapping_vnets(data, order) ==
    LET conflicts == find_overlapping_vnets(data, order)
    IN IF Len(conflicts) = 0 THEN Ok(data)
       ELSE Ok(SelectSeq(data,
                         LAMBDA subnet :
                             <<subnet.vnet_name, subnet.subscription_id>>
                                 \notin vnets_to_remove(conflicts)))

----------------------------------------------------------------------------
(* processing/vnet.rs: get_vnets; models/vnet.rs: Vnet, VnetList *)

\* Vnet::new(subnet): subnets holds references to the records, kept here as
\* their places in data.data
Vnet(subnet, k) ==
    [vnet_name |-> subnet.vnet_name, vnet_cidr |-> subnet.vnet_cidr,
     location |-> subnet.location, subscription_id |-> subnet.subscription_id,
     subscription_name |-> subnet.subscription_name, subnets |-> <<k>>]

\* the loop over data.data: add_subnet on the group found under the key,
\* add_vnet when there is none
RECURSIVE get_vnets_from(_, _, _)
get_vnets_from(vnets, data, k) ==
    IF k > Len(data) THEN vnets
    ELSE LET subnet == data[k]
             key == <<subnet.vnet_name, subnet.subscription_name>>
         IN IF key \in DOMAIN vnets
            THEN get_vnets_from([vnets EXCEPT ![key].subnets = Append(@, k)],
                                data, k + 1)
            ELSE get_vnets_from(vnets @@ (key :> Vnet(subnet, k)), data, k + 1)

\* VnetList::new() is the empty map
get_vnets(data) == get_vnets_from(<<>>, data, 1)

----------------------------------------------------------------------------
(* azure/graph.rs: run_az_cli_graph *)

\* format!("--skip-token {skip_token_new}") of json_parsed.skip_token
\* .unwrap_or("null"); the text is kept as its two words, String::new() is <<>>
skip_token_new(skip_token) ==
    <<"--skip-token", IF is_some(skip_token) THEN unwrap(skip_token) ELSE "null">>

\* data.data.extend(...): the records of a page get src_index = their place
\* in the page and block_id = count_blocks_returned
extend(data, count, block) ==
    data \o [i \in 1..count |-> [src_index |-> i - 1, block_id |-> block]]

----------------------------------------------------------------------------
(* output/csv.rs: subnet_print, the loop that threads next_ip and           *)
(* vnet_previous_cidr through process_subnet_row and collects the rows      *)

\* Ipv4Addr::new(10, 0, 0, 0), the first next_ip of subnet_print
BaseAddr == 167772160

MaxRows == 3

\* addresses next_ip starts from (process_subnet_row is public and its tests
\* pass their own)
GapStarts == {BaseAddr, BaseAddr + 8}

\* subnet CIDRs of the records: aligned and unaligned addresses, prefixes with
\* and without a defined host count
GapCidrs ==
    {Ipv4(BaseAddr + o, m) : o \in {0, 8, 16, 32}, m \in {28, 29}}
    \cup {Ipv4(BaseAddr + 32, 27), Ipv4(BaseAddr + 40, 27), Ipv4(BaseAddr + 16, 30),
          Ipv4(BaseAddr + 64, 26)}

GapOptCidrs == {None} \cup {Some(c) : c \in GapCidrs}

\* VNet CIDR lists of the records
GapVnetLists ==
    {<<Ipv4(BaseAddr, 24)>>, <<Ipv4(BaseAddr + 32, 27)>>,
     <<Ipv4(BaseAddr + 64, 26), Ipv4(BaseAddr, 28)>>}

GapMasks == {26, 28, 30}

\* data.data.sort_by_key(|s| s.subnet_cidr) has run (get_sorted_subnets)
IsSortedByCidr(cidrs) ==
    \A k \in 1..(Len(cidrs) - 1) : ~OptIpv4Less(cidrs[k + 1], cidrs[k])

GapInputs ==
    {cs \in UNION {[1..n -> GapOptCidrs] : n \in 0..MaxRows} : IsSortedByCidr(cs)}

FbIdle == fb_in = <<>> /\ fb_out = Err /\ fb_pc = "idle" /\ fb_mask = 0
GfIdle ==
    /\ gf_data = <<>> /\ gf_i = 0 /\ gf_start = 0 /\ next_ip = 0
    /\ vnet_previous_cidr = Ipv4(0, 24) /\ gap_cidr_mask = 0
    /\ output_rows = <<>> /\ gf_pc = "idle"
DdIdle ==
    /\ dd_input = <<>> /\ dd_ignore = {} /\ dd_data = <<>> /\ dd_prev = <<>>
    /\ dd_pc = "idle"
OvIdle == ov_data = <<>> /\ ov_conflicts = <<>> /\ ov_first = {} /\ ov_pc = "idle"
FlIdle == fl_data = <<>> /\ fl_out = <<>> /\ fl_first = {} /\ fl_pc = "idle"
ExIdle == ex_data = <<>> /\ ex_excluded = <<>> /\ ex_out = <<>> /\ ex_pc = "idle"
IpIdle == ip_call = <<>> /\ ip_ret = Err /\ ip_pc = "idle"
VnIdle == vn_data = <<>> /\ vn_vnets = <<>> /\ vn_pc = "idle"
GrIdle ==
    /\ skip_token_param = <<>> /\ gr_commands = <<>> /\ gr_data = <<>>
    /\ count_blocks_returned = 0 /\ gr_pc = "idle"

InitGap ==
    /\ \E cs \in GapInputs, vc \in GapVnetLists :
          gf_data = [k \in 1..Len(cs) |->
                        Subnet("vnet-a", vc, "snet", cs[k], "sub-1", "Sub One", k)]
    /\ gf_i = 0
    /\ gf_start \in GapStarts
    /\ next_ip = gf_start
    /\ vnet_previous_cidr = Ipv4(0, 24)
    /\ gap_cidr_mask \in GapMasks
    /\ output_rows = <<>>
    /\ gf_pc = "loop"
    /\ FbIdle /\ DdIdle /\ OvIdle /\ FlIdle /\ ExIdle /\ IpIdle /\ VnIdle /\ GrIdle
    /\ overflow_checks \in BOOLEAN

\* one turn of "for (i, s) in data.data.iter().enumerate()"; a panic ends the
\* process before anything is printed
ProcessSubnetRow ==
    /\ gf_pc = "loop"
    /\ gf_i < Len(gf_data)
    /\ LET r == process_subnet_row(gf_data[gf_i + 1], gf_i, next_ip,
                                   vnet_previous_cidr, gap_cidr_mask)
       IN IF r.ok
          THEN /\ next_ip' = r.v.next_ip
               /\ vnet_previous_cidr' = r.v.vnet_previous_cidr
               /\ output_rows' = output_rows \o r.v.rows
               /\ gf_i' = gf_i + 1
               /\ gf_pc' = "loop"
          ELSE /\ gf_pc' = "panic"
               /\ UNCHANGED <<next_ip, vnet_previous_cidr, output_rows, gf_i>>
    /\ UNCHANGED <<gf_data, gf_start, gap_cidr_mask, fbVars, ddVars, ovVars,
                   flVars, exVars, ipVars, overflow_checks, vnVars, grVars>>

\* the loop is over: the rows are printed
SubnetPrintDone ==
    /\ gf_pc = "loop"
    /\ gf_i = Len(gf_data)
    /\ gf_pc' = "done"
    /\ UNCHANGED <<gf_data, gf_i, gf_start, next_ip, vnet_previous_cidr,
                   gap_cidr_mask, output_rows, fbVars, ddVars, ovVars,
                   flVars, exVars, ipVars, overflow_checks, vnVars, grVars>>

NextGap == ProcessSubnetRow \/ SubnetPrintDone

SpecGap == InitGap /\ [][NextGap]_vars

----------------------------------------------------------------------------
(* find_biggest_subnet on its own *)

FitStarts ==
    {Ipv4Addr(10, 0, 0, 0), Ipv4Addr(10, 0, 0, 8), Ipv4Addr(10, 0, 0, 16),
     Ipv4Addr(10, 0, 1, 0), Ipv4Addr(10, 6, 2, 80), Ipv4Addr(10, 11, 12, 0),
     Ipv4Addr(10, 11, 12, 16), Ipv4Addr(10, 0, 0, 31)}

FitMasks == {8, 12, 16, 24, 28, 29, 32}

FitBelow ==
    {Ipv4(Ipv4Addr(10, 0, 1, 0), 24), Ipv4(Ipv4Addr(10, 6, 8, 0), 24),
     Ipv4(Ipv4Addr(10, 11, 16, 0), 24), Ipv4(Ipv4Addr(10, 192, 0, 0), 24),
     Ipv4(Ipv4Addr(10, 0, 0, 32), 27), Ipv4(Ipv4Addr(10, 0, 0, 40), 27),
     Ipv4(Ipv4Addr(10, 0, 0, 0), 24)}

InitFit ==
    /\ fb_in \in [start_ip : FitStarts, start_mask : FitMasks, below : FitBelow]
    /\ fb_out = Err
    /\ fb_pc = "call"
    /\ fb_mask = 0
    /\ GfIdle /\ DdIdle /\ OvIdle /\ FlIdle /\ ExIdle /\ IpIdle /\ VnIdle /\ GrIdle
    /\ overflow_checks = FALSE

FindBiggestSubnet ==
    /\ fb_pc = "call"
    /\ fb_out' = find_biggest_subnet(fb_in.start_ip, fb_in.start_mask, fb_in.below)
    /\ fb_pc' = "ret"
    /\ UNCHANGED <<fb_in, fb_mask, gfVars, ddVars, ovVars,
                   flVars, exVars, ipVars, overflow_checks, vnVars, grVars>>

NextFit == FindBiggestSubnet

SpecFit == InitFit /\ [][NextFit]_vars

----------------------------------------------------------------------------
(* find_biggest_subnet, one turn of its loop at a time *)

\* assert!(start_mask <= 32), then next_mask = start_mask.max(lo_mask(start_ip))
FitEnter ==
    /\ fb_pc = "call"
    /\ IF fb_in.start_mask <= 32
       THEN /\ fb_mask' = first_mask(fb_in.start_ip, fb_in.start_mask)
            /\ fb_pc' = "loop"
       ELSE /\ fb_pc' = "panic"
            /\ UNCHANGED fb_mask
    /\ UNCHANGED <<fb_in, fb_out, gfVars, ddVars, ovVars, flVars, exVars, ipVars,
                   vnVars, grVars, overflow_checks>>

\* one turn of the loop: next_subnet.hi() and below_subnet_cidr.lo() panic on
\* a prefix above 32
FitTurn ==
    /\ fb_pc = "loop"
    /\ LET next_hi == hi(Ipv4(fb_in.start_ip, fb_mask))
           below_lo == lo(fb_in.below)
       IN IF ~next_hi.ok \/ ~below_lo.ok
          THEN fb_pc' = "panic" /\ UNCHANGED fb_mask
          ELSE IF next_hi.v >= below_lo.v
               THEN fb_mask' = next_mask_incremented(fb_mask) /\ fb_pc' = "loop"
               ELSE fb_pc' = "break" /\ UNCHANGED fb_mask
    /\ UNCHANGED <<fb_in, fb_out, gfVars, ddVars, ovVars, flVars, exVars, ipVars,
                   vnVars, grVars, overflow_checks>>

\* assert!(next_mask <= 32), then the return of next_mask
FitReturn ==
    /\ fb_pc = "break"
    /\ IF fb_mask <= 32
       THEN fb_out' = Ok(fb_mask) /\ fb_pc' = "ret"
       ELSE fb_pc' = "panic" /\ UNCHANGED fb_out
    /\ UNCHANGED <<fb_in, fb_mask, gfVars, ddVars, ovVars, flVars, exVars, ipVars,
                   vnVars, grVars, overflow_checks>>

NextFitLoop == FitEnter \/ FitTurn \/ FitReturn

\* the code runs on until it returns or panics
SpecFitLoop == InitFit /\ [][NextFitLoop]_vars /\ WF_vars(NextFitLoop)

----------------------------------------------------------------------------
(* Properties of the gap finder *)

\* the rows that carry an address range, in output order
RangeRows == SelectSeq(output_rows, LAMBDA r : is_some(r.subnet_cidr))
RowLo(r) == lo(unwrap(r.subnet_cidr)).v
RowHi(r) == unwrap(r.broadcast)

\* the record a gap row was synthesized for: the one of the next real row
RECURSIVE RecordOfRow(_)
RecordOfRow(k) ==
    IF output_rows[k].j # 0 THEN gf_data[output_rows[k].j] ELSE RecordOfRow(k + 1)

GapRowIndexes == {k \in 1..Len(output_rows) : output_rows[k].j = 0}

\* C1: in a finished report the ranges [network address, broadcast address]
\* of the rows tile the space from the first next_ip on: the first range
\* starts at the first next_ip, each next range starts right after the
\* broadcast address of the one before, and so no two ranges overlap.
C1_RangesTile ==
    gf_pc = "done" =>
        /\ Len(RangeRows) > 0 => RowLo(RangeRows[1]) = gf_start
        /\ \A k \in 1..(Len(RangeRows) - 1) :
              RowLo(RangeRows[k + 1]) = RowHi(RangeRows[k]) + 1

\* C2: for start < target.lo() and a requested mask r <= 32,
\* find_biggest_subnet returns the smallest prefix m with m >= r,
\* m >= lo_mask(start) and the broadcast address of start/m below target.lo();
\* start is then the network address of start/m, and 10.6.2.80 with r = 16
\* below 10.6.8.0/24 gives 28.
FittingPrefixes(start, r, below) ==
    {m \in 0..32 : /\ m >= r
                   /\ m >= 32 - trailing_zeros(start)
                   /\ hi(Ipv4(start, m)).v < lo(below).v}

C2_SmallestFittingPrefix ==
    (fb_pc = "ret" /\ fb_in.start_mask <= 32 /\ fb_in.start_ip < lo(fb_in.below).v) =>
        /\ fb_out.ok
        /\ fb_out.v \in FittingPrefixes(fb_in.start_ip, fb_in.start_mask, fb_in.below)
        /\ \A m \in FittingPrefixes(fb_in.start_ip, fb_in.start_mask, fb_in.below) :
              fb_out.v <= m
        /\ lo(Ipv4(fb_in.start_ip, fb_out.v)).v = fb_in.start_ip
        /\ (fb_in = [start_ip |-> Ipv4Addr(10, 6, 2, 80), start_mask |-> 16,
                     below |-> Ipv4(Ipv4Addr(10, 6, 8, 0), 24)]
               => fb_out.v = 28)

C2_Witness ==
    /\ fb_pc = "ret"
    /\ fb_in = [start_ip |-> Ipv4Addr(10, 6, 2, 80), start_mask |-> 16,
                below |-> Ipv4(Ipv4Addr(10, 6, 8, 0), 24)]
    /\ fb_out.ok
    /\ fb_out.v = 28

\* C3: whenever the record to process has a subnet_cidr whose network address
\* is below next_ip, the step aborts the report (no row of it is printed).
C3_AbortsPastNetworkAddress ==
    [][(/\ gf_pc = "loop"
        /\ gf_i < Len(gf_data)
        /\ is_some(gf_data[gf_i + 1].subnet_cidr)
        /\ next_ip > lo(unwrap(gf_data[gf_i + 1].subnet_cidr)).v)
       => gf_pc' = "panic"]_vars

\* the record whose row was emitted last, once one was
LastDone == gf_data[gf_i]
AfterRealRow ==
    gf_pc \in {"loop", "done"} /\ gf_i >= 1 /\ is_some(LastDone.subnet_cidr)

Min(a, b) == IF a <= b THEN a ELSE b

Pending == gf_pc = "loop" /\ gf_i < Len(gf_data)
PendingRecord == gf_data[gf_i + 1]

\* the step appended exactly one row to the report
OneRowAdded ==
    /\ Len(output_rows') = Len(output_rows) + 1
    /\ SubSeq(output_rows', 1, Len(output_rows)) = output_rows
AddedRow == output_rows'[Len(output_rows')]

\* C16: a record without a subnet CIDR adds exactly one row, with gap
\* "None", CIDR text "none", host count 0 and ordinal index + 1, and leaves
\* next_ip and the previous VNet CIDR as they were.
C16_AbsentCidrRow ==
    [][(Pending /\ ~is_some(PendingRecord.subnet_cidr))
       => /\ gf_pc' = "loop"
          /\ OneRowAdded
          /\ AddedRow.gap = "None"
          /\ AddedRow.subnet_cidr = None
          /\ AddedRow.az_hosts = U64(0, 0)
          /\ AddedRow.j = gf_i + 1
          /\ AddedRow.subnet_name = PendingRecord.subnet_name
          /\ next_ip' = next_ip
          /\ vnet_previous_cidr' = vnet_previous_cidr]_vars

\* the second record has no subnet CIDR and its row, numbered 2, is out
C16_Witness ==
    /\ gf_pc = "loop"
    /\ gf_i = 2
    /\ ~is_some(LastDone.subnet_cidr)
    /\ Len(output_rows) = 2
    /\ output_rows[2].j = 2
    /\ output_rows[2].gap = "None"
    /\ output_rows[2].az_hosts = U64(0, 0)
    /\ next_ip = gf_start

\* the record to process has a subnet CIDR whose network address is next_ip
Adjacent ==
    /\ Pending
    /\ is_some(PendingRecord.subnet_cidr)
    /\ next_ip = lo(unwrap(PendingRecord.subnet_cidr)).v

\* the step added the one row of the real subnet and nothing else
OnlyRealRowAdded ==
    /\ gf_pc' = "loop"
    /\ OneRowAdded
    /\ AddedRow.gap = "Sub"
    /\ AddedRow.subnet_cidr = PendingRecord.subnet_cidr
    /\ AddedRow.j = gf_i + 1

\* C17 as claimed: when next_ip is the network address of the record's
\* subnet CIDR, exactly one row is added, the real subnet's with ordinal
\* index + 1 and no gap row; for a prefix up to 28 the new next_ip is the
\* address after the subnet's broadcast address.
C17_OneRowWhenAdjacent ==
    [][Adjacent
       => /\ OnlyRealRowAdded
          /\ unwrap(PendingRecord.subnet_cidr).mask <= 28
                => next_ip' = hi(unwrap(PendingRecord.subnet_cidr)).v + 1]_vars

----------------------------------------------------------------------------
(* de_duplicate_subnets called on a record list, and again on its result *)

MaxRecords == 3

DedupCidrs == {None, Some(Ipv4(Ipv4Addr(10, 1, 1, 0), 24)),
               Some(Ipv4(Ipv4Addr(10, 0, 0, 0), 24))}
DedupNames == {"snet-a", "default"}
DedupSubs == {"sub-1", "sub-2"}
DedupIgnores == {None, Some({"snet-a"})}

DedupInputs ==
    UNION {[1..n -> [cidr : DedupCidrs, name : DedupNames, sub : DedupSubs]] :
              n \in 0..MaxRecords}

\* src_index of the k-th record: its place in the page, or, when the source
\* hands a record out twice, the place of the record before it
DedupProvenance ==
    {[k \in 1..MaxRecords + 1 |-> k], [k \in 1..MaxRecords + 1 |-> (k + 1) \div 2]}

InitDedup ==
    /\ \E rs \in DedupInputs, src \in DedupProvenance :
          dd_input = [k \in 1..Len(rs) |->
                         Subnet("vnet-a", <<Ipv4(Ipv4Addr(10, 0, 0, 0), 16)>>,
                                rs[k].name, rs[k].cidr, rs[k].sub, "Sub", src[k])]
    /\ dd_ignore \in DedupIgnores
    /\ dd_data = dd_input
    /\ dd_prev = <<>>
    /\ dd_pc = "input"
    /\ FbIdle /\ GfIdle /\ OvIdle /\ FlIdle /\ ExIdle /\ IpIdle /\ VnIdle /\ GrIdle
    /\ overflow_checks = FALSE

\* data = de_duplicate_subnets(data, ignore): first on the input, then on
\* its own result
DeDuplicateSubnets ==
    /\ dd_pc \in {"input", "once"}
    /\ dd_prev' = dd_data
    /\ dd_data' = de_duplicate_subnets(dd_data, dd_ignore)
    /\ dd_pc' = IF dd_pc = "input" THEN "once" ELSE "twice"
    /\ UNCHANGED <<dd_input, dd_ignore, fbVars, gfVars, ovVars,
                   flVars, exVars, ipVars, overflow_checks, vnVars, grVars>>

NextDedup == DeDuplicateSubnets

SpecDedup == InitDedup /\ [][NextDedup]_vars

----------------------------------------------------------------------------
(* find_overlapping_vnets called on a record list and on its reorderings *)

MaxVnetRecords == 3

OverlapIdentities == {<<"vnet-a", "sub-1">>, <<"vnet-a", "sub-2">>}
OverlapCidrA == Ipv4(Ipv4Addr(10, 0, 0, 0), 16)
OverlapCidrB == Ipv4(Ipv4Addr(10, 1, 0, 0), 16)
OverlapVnetLists ==
    {<<OverlapCidrA>>, <<OverlapCidrB>>, <<OverlapCidrA, OverlapCidrB>>,
     <<OverlapCidrA, OverlapCidrA>>}

OverlapInputs ==
    UNION {[1..n -> [id : OverlapIdentities, vc : OverlapVnetLists]] :
              n \in 0..MaxVnetRecords}

InitOverlap ==
    /\ \E rs \in OverlapInputs :
          ov_data = [k \in 1..Len(rs) |->
                        Subnet(rs[k].id[1], rs[k].vc, "snet",
                               Some(Ipv4(Ipv4Addr(10, 0, 0, 0), 24)), rs[k].id[2],
                               "Sub", k)]
    /\ ov_conflicts = <<>>
    /\ ov_first = {}
    /\ ov_pc = "input"
    /\ FbIdle /\ GfIdle /\ DdIdle /\ FlIdle /\ ExIdle /\ IpIdle /\ VnIdle /\ GrIdle
    /\ overflow_checks = FALSE

\* a conflict list without the order of its lists: per conflict the CIDR and
\* the set of (vnet_name, subscription_id) of its vnets
ConflictSet(conflicts) ==
    {[cidr |-> conflicts[k].cidr,
      vnets |-> {<<conflicts[k].vnets[n].vnet_name,
                   conflicts[k].vnets[n].subscription_id>> :
                    n \in 1..Len(conflicts[k].vnets)}] : k \in 1..Len(conflicts)}

Keys(data) == {vnet_key(scanned(data)[k]) : k \in 1..Len(scanned(data))}

FindOverlappingVnets ==
    /\ ov_pc = "input"
    /\ \E order \in KeyOrders(Keys(ov_data)) :
          /\ ov_conflicts' = find_overlapping_vnets(ov_data, order)
          /\ ov_first' = ConflictSet(find_overlapping_vnets(ov_data, order))
    /\ ov_pc' = "found"
    /\ UNCHANGED <<ov_data, fbVars, gfVars, ddVars,
                   flVars, exVars, ipVars, overflow_checks, vnVars, grVars>>

\* the caller passes the same records in another order: two neighbours
\* change places, and find_overlapping_vnets runs on the new list
Shuffle ==
    /\ ov_pc = "found"
    /\ \E i \in 1..(Len(ov_data) - 1) :
          LET swapped == [ov_data EXCEPT ![i] = ov_data[i + 1], ![i + 1] = ov_data[i]]
          IN /\ ov_data' = swapped
             /\ \E order \in KeyOrders(Keys(swapped)) :
                   ov_conflicts' = find_overlapping_vnets(swapped, order)
    /\ UNCHANGED <<ov_first, ov_pc, fbVars, gfVars, ddVars,
                   flVars, exVars, ipVars, overflow_checks, vnVars, grVars>>

NextOverlap == FindOverlappingVnets \/ Shuffle

SpecOverlap == InitOverlap /\ [][NextOverlap]_vars

----------------------------------------------------------------------------
(* Properties of de-duplication *)

\* the names the call ignores
IgnoredNames ==
    IF dd_ignore = <<>> THEN default_subnet_names_to_ignore ELSE dd_ignore[1]

\* the input records that have a CIDR and a name that is not ignored
Eligible ==
    {k \in 1..Len(dd_input) :
        dd_input[k].subnet_cidr # <<>> /\ dd_input[k].subnet_name \notin IgnoredNames}

CidrSubKey(s) == <<s.subnet_cidr, s.subscription_id>>

\* C6: the output of de-duplication holds exactly one record for every
\* (subnet_cidr, subscription_id) key among the input records that have a
\* CIDR and a name that is not ignored, no two output records share a key
\* (check_for_duplicate_subnets accepts the output), and records with one
\* subnet_cidr and different subscription_id are all kept.
C6_OneRecordPerKey ==
    dd_pc = "once" =>
        /\ {CidrSubKey(dd_data[k]) : k \in 1..Len(dd_data)}
              = {CidrSubKey(dd_input[k]) : k \in Eligible}
        /\ Len(dd_data) = Cardinality({CidrSubKey(dd_input[k]) : k \in Eligible})
        /\ check_for_duplicate_subnets(dd_data)

C6_Witness ==
    /\ dd_pc = "once"
    /\ Cardinality(Eligible) > Len(dd_data)
    /\ \E k, n \in 1..Len(dd_data) :
          /\ dd_data[k].subnet_cidr = dd_data[n].subnet_cidr
          /\ dd_data[k].subscription_id # dd_data[n].subscription_id

\* C7: de-duplicating the result of a de-duplication, with the same ignore
\* set, returns that result unchanged, as a list.
C7_Idempotent == dd_pc = "twice" => dd_data = dd_prev

C7_Witness ==
    /\ dd_pc = "twice"
    /\ Len(dd_data) >= 2
    /\ Len(dd_input) > Len(dd_data)
    /\ dd_data = dd_prev

\* C8: the output of de-duplication is no longer than its input, every
\* output record is a record of the input, unchanged, and none has an
\* ignored subnet_name or no subnet_cidr.
C8_OnlyInputRecords ==
    dd_pc \in {"once", "twice"} =>
        /\ Len(dd_data) <= Len(dd_prev)
        /\ \A k \in 1..Len(dd_data) :
              /\ \E n \in 1..Len(dd_prev) : dd_data[k] = dd_prev[n]
              /\ dd_data[k].subnet_name \notin IgnoredNames
              /\ dd_data[k].subnet_cidr # <<>>

C8_Witness ==
    /\ dd_pc = "once"
    /\ Len(dd_data) >= 1
    /\ \E k \in 1..Len(dd_input) : dd_input[k].subnet_name \in IgnoredNames
    /\ \E k \in 1..Len(dd_input) : dd_input[k].subnet_cidr = <<>>
    /\ Len(dd_data) < Len(dd_input)

----------------------------------------------------------------------------
(* Properties of overlap detection *)

\* the identities whose records list cidr among their VNet CIDRs
Claimants(cidr) ==
    {<<ov_data[k].vnet_name, ov_data[k].subscription_id>> :
        k \in {n \in 1..Len(ov_data) :
                  \E m \in 1..Len(ov_data[n].vnet_cidr) : ov_data[n].vnet_cidr[m] = cidr}}

ListedCidrs ==
    UNION {{ov_data[k].vnet_cidr[m] : m \in 1..Len(ov_data[k].vnet_cidr)} :
              k \in 1..Len(ov_data)}

\* C9: find_overlapping_vnets returns one conflict for each CIDR that at
\* least two distinct (vnet_name, subscription_id) identities list, none for
\* any other CIDR, and each conflict names every claimant exactly once, so at
\* least two distinct identities.
C9_ConflictsAreSharedCidrs ==
    ov_pc = "found" =>
        /\ {ov_conflicts[k].cidr : k \in 1..Len(ov_conflicts)}
              = {c \in ListedCidrs : Cardinality(Claimants(c)) >= 2}
        /\ \A k, n \in 1..Len(ov_conflicts) :
              ov_conflicts[k].cidr = ov_conflicts[n].cidr => k = n
        /\ \A k \in 1..Len(ov_conflicts) :
              LET named == {<<ov_conflicts[k].vnets[n].vnet_name,
                              ov_conflicts[k].vnets[n].subscription_id>> :
                               n \in 1..Len(ov_conflicts[k].vnets)}
              IN /\ named = Claimants(ov_conflicts[k].cidr)
                 /\ Len(ov_conflicts[k].vnets) = Cardinality(named)
                 /\ Cardinality(named) >= 2

\* C10 as claimed: whatever order the records are passed in, the set of
\* conflicts (CIDR and set of claimant identities) is the one found for the
\* first order.
C10_OrderIndependent ==
    ov_pc = "found" => ConflictSet(ov_conflicts) = ov_first

\* every record of one identity carries the same VNet CIDR list
SameListPerIdentity ==
    \A k, n \in 1..Len(ov_data) :
        (/\ ov_data[k].vnet_name = ov_data[n].vnet_name
         /\ ov_data[k].subscription_id = ov_data[n].subscription_id)
        => ov_data[k].vnet_cidr = ov_data[n].vnet_cidr

\* C10 amended: when all records of one (vnet_name, subscription_id) identity
\* carry the same VNet CIDR list, the set of conflicts is the same for every
\* order of the records.
C10_OrderIndependentSameLists ==
    (ov_pc = "found" /\ SameListPerIdentity) => ConflictSet(ov_conflicts) = ov_first

C10_Witness ==
    /\ ov_pc = "found"
    /\ SameListPerIdentity
    /\ \E k \in 1..Len(ov_data) : ov_data[k].src_index # k
    /\ ov_first # {}
    /\ ConflictSet(ov_conflicts) = ov_first

----------------------------------------------------------------------------
(* filter_overlapping_vnets called on a record list and on its reorderings *)

\* vnet_name, subscription_id, subscription_name of the VNets
FilterVnets ==
    {<<"vnet-a", "sub-1", "Sub One">>, <<"vnet-b", "sub-1", "Sub One">>,
     <<"vnet-a", "sub-2", "Sub Two">>, <<"vnet-a", "sub-3", "Sub Three">>}

FilterVnetLists ==
    {<<OverlapCidrA>>, <<OverlapCidrB>>, <<OverlapCidrA, OverlapCidrB>>,
     <<OverlapCidrA, OverlapCidrA>>}

MaxFilterRecords == 3

FilterInputs ==
    UNION {[1..n -> [id : FilterVnets, vc : FilterVnetLists]] : n \in 0..MaxFilterRecords}

InitFilter ==
    /\ \E rs \in FilterInputs :
          fl_data = [k \in 1..Len(rs) |->
                        Subnet(rs[k].id[1], rs[k].vc, "snet",
                               Some(Ipv4(Ipv4Addr(10, 0, 0, 0), 24)), rs[k].id[2],
                               rs[k].id[3], k)]
    /\ fl_out = <<>>
    /\ fl_first = {}
    /\ fl_pc = "input"
    /\ FbIdle /\ GfIdle /\ DdIdle /\ OvIdle /\ ExIdle /\ IpIdle /\ VnIdle /\ GrIdle
    /\ overflow_checks = FALSE

Range(seq) == {seq[k] : k \in 1..Len(seq)}

FilterOverlappingVnets ==
    /\ fl_pc = "input"
    /\ \E order \in KeyOrders(Keys(fl_data)) :
          /\ fl_out' = unwrap_ok(filter_overlapping_vnets(fl_data, order))
          /\ fl_first' = Range(unwrap_ok(filter_overlapping_vnets(fl_data, order)))
    /\ fl_pc' = "filtered"
    /\ UNCHANGED <<fl_data, fbVars, gfVars, ddVars, ovVars, exVars, ipVars,
                   overflow_checks, vnVars, grVars>>

\* the same records are filtered again: in another run (another HashMap
\* order), with two neighbours of the list changing places or not
FilterAgain ==
    /\ fl_pc = "filtered"
    /\ \E i \in 0..(Len(fl_data) - 1) :
          LET again == IF i = 0 THEN fl_data
                       ELSE [fl_data EXCEPT ![i] = fl_data[i + 1],
                                            ![i + 1] = fl_data[i]]
          IN /\ fl_data' = again
             /\ \E order \in KeyOrders(Keys(again)) :
                   fl_out' = unwrap_ok(filter_overlapping_vnets(again, order))
    /\ UNCHANGED <<fl_first, fl_pc, fbVars, gfVars, ddVars, ovVars, exVars, ipVars,
                   overflow_checks, vnVars, grVars>>

NextFilter == FilterOverlappingVnets \/ FilterAgain

SpecFilter == InitFilter /\ [][NextFilter]_vars

\* one call of filter_overlapping_vnets on the records
NextFilterOnce == FilterOverlappingVnets

\* the records of three VNets: two of one subscription, and one of another
\* subscription with the name of the first
InitFilterOnce ==
    /\ InitFilter
    /\ \A k \in 1..Len(fl_data) : fl_data[k].subscription_id # "sub-3"

SpecFilterOnce == InitFilterOnce /\ [][NextFilterOnce]_vars

----------------------------------------------------------------------------
(* Properties of filter_overlapping_vnets *)

\* the conflicts find_overlapping_vnets reports on the input, as CIDR and set
\* of claimant identities (the same for every HashMap order)
FilterConflicts ==
    ConflictSet(find_overlapping_vnets(
                    fl_data, CHOOSE o \in KeyOrders(Keys(fl_data)) : TRUE))

\* the VnetInfo of an identity
InfoOf(id) == seen_vnets(fl_data)[id]

\* the claimants of a conflict that no other claimant is ranked before
TopRanked(c) ==
    {t \in c.vnets : \A v \in c.vnets : ~rank_before(InfoOf(v), InfoOf(t))}

RecordsOf(id) ==
    {fl_data[k] : k \in {n \in 1..Len(fl_data) :
                            <<fl_data[n].vnet_name, fl_data[n].subscription_id>> = id}}

\* C11: for each conflict find_overlapping_vnets reports on the input,
\* filter_overlapping_vnets keeps every record of a claimant ranked first by
\* (subnet_count descending, subscription_name ascending) and drops every
\* record of every other claimant of that conflict.
C11_KeepsTopRankedOnly ==
    fl_pc = "filtered" =>
        \A c \in FilterConflicts :
            \E t \in TopRanked(c) :
                /\ RecordsOf(t) \subseteq Range(fl_out)
                /\ \A v \in c.vnets \ {t} : RecordsOf(v) \cap Range(fl_out) = {}

\* C12: the set of records filter_overlapping_vnets returns for one
\* collection of records is the same for every order of the input list and
\* every HashMap iteration order.
C12_FilterDeterministic ==
    fl_pc = "filtered" => Range(fl_out) = fl_first

----------------------------------------------------------------------------
(* the functions of models/ipv4.rs called on their own *)

TextAddrs == {<<10, 0, 0, 0>>, <<10, 0, 0, 5>>, <<10, 0, 256, 0>>, <<10, 0, 0>>}
TextMasks ==
    {[digits |-> TRUE, n |-> n] : n \in {0, 16, 24, 32, 33, 255, 256}}
    \cup {[digits |-> FALSE]}
CidrTexts ==
    {CidrText(pad, <<a, m>>) : pad \in BOOLEAN, a \in TextAddrs, m \in TextMasks}
    \cup {CidrText(FALSE, <<a>>) : a \in TextAddrs}
    \cup {CidrText(FALSE, <<a, m, m>>) : a \in TextAddrs, m \in TextMasks}

\* texts to parse, write and parse again: the mask piece also tells how many
\* zeros are written before its digits (u8::from_str reads past them)
RoundTripTexts ==
    {CidrText(pad, <<a, [digits |-> TRUE, n |-> n, zeros |-> z]>>) :
        pad \in BOOLEAN,
        a \in {<<10, 0, 0, 0>>, <<10, 0, 0, 5>>, <<0, 0, 0, 0>>, <<127, 255, 255, 255>>,
               <<10, 0, 256, 0>>},
        n \in {0, 8, 24, 29, 32, 33}, z \in {0, 1}}

\* addresses over all 32 bits: 0.0.0.0, 10.0.0.5, 127.255.255.255, 128.0.0.0,
\* 192.168.1.42, 255.255.255.0, 255.255.255.255
WideAddrs ==
    {U32(0, 0), U32(2560, 5), U32(32767, 65535), U32(32768, 0), U32(49320, 298),
     U32(65535, 65280), U32(65535, 65535)}

HostLens == 0..40 \cup {128, 255}

NextCidrs ==
    {Ipv4(Ipv4Addr(10, 0, 0, 0), 24), Ipv4(Ipv4Addr(10, 0, 0, 5), 24),
     Ipv4(Ipv4Addr(10, 0, 0, 64), 26), Ipv4(Ipv4Addr(10, 0, 1, 8), 29),
     Ipv4(Ipv4Addr(10, 0, 0, 0), 16), Ipv4(Ipv4Addr(10, 0, 0, 7), 32),
     Ipv4(Ipv4Addr(10, 0, 0, 0), 8)}
NextMasks == {None} \cup {Some(r) : r \in {0, 2, 8, 16, 24, 26, 28, 29, 30, 32, 33}}

CmpCidrs ==
    {Ipv4(Ipv4Addr(10, 0, 0, 0), 24), Ipv4(Ipv4Addr(10, 0, 0, 0), 26),
     Ipv4(Ipv4Addr(10, 0, 0, 64), 26), Ipv4(Ipv4Addr(10, 0, 1, 0), 24),
     Ipv4(Ipv4Addr(10, 0, 0, 5), 24)}

IpCalls ==
    {[fn |-> f, text |-> t] : f \in {"new", "deserialize"}, t \in CidrTexts}
    \cup {[fn |-> "num_az_hosts", len |-> n] : n \in HostLens}
    \cup {[fn |-> "next_subnet_ipv4", ipv4 |-> c, mask |-> m] :
             c \in NextCidrs, m \in NextMasks}
    \cup {[fn |-> "cmp", a |-> a, b |-> b, c |-> c] :
             a \in CmpCidrs, b \in CmpCidrs, c \in CmpCidrs}
    \cup {[fn |-> "round_trip", text |-> t] : t \in RoundTripTexts}
    \cup {[fn |-> f, addr |-> a, mask |-> p] :
             f \in {"bounds", "ip_after_subnet"}, a \in WideAddrs, p \in 0..33}

InitIpv4 ==
    /\ ip_call \in IpCalls
    /\ ip_ret = Err
    /\ ip_pc = "call"
    /\ overflow_checks \in BOOLEAN
    /\ FbIdle /\ GfIdle /\ DdIdle /\ OvIdle /\ FlIdle /\ ExIdle /\ VnIdle /\ GrIdle

Returns(value) ==
    /\ ip_pc = "call"
    /\ ip_ret' = value
    /\ ip_pc' = "ret"
    /\ UNCHANGED <<ip_call, overflow_checks, fbVars, gfVars, ddVars, ovVars, flVars,
                   exVars, vnVars, grVars>>

Ipv4New == ip_call.fn = "new" /\ Returns(new(ip_call.text))

Ipv4Deserialize == ip_call.fn = "deserialize" /\ Returns(deserialize(ip_call.text))

NumAzHosts == ip_call.fn = "num_az_hosts" /\ Returns(num_az_hosts(ip_call.len))

NextSubnetIpv4 ==
    ip_call.fn = "next_subnet_ipv4" /\ Returns(next_subnet_ipv4(ip_call.ipv4, ip_call.mask))

\* cmp and == on the pairs of three values
Ipv4Cmp ==
    /\ ip_call.fn = "cmp"
    /\ Returns(Ok([ab |-> cmp(ip_call.a, ip_call.b), ba |-> cmp(ip_call.b, ip_call.a),
                   bc |-> cmp(ip_call.b, ip_call.c), ac |-> cmp(ip_call.a, ip_call.c),
                   eq_ab |-> eq(ip_call.a, ip_call.b)]))

\* Ipv4::new(text), and for a parsed value its Display and Ipv4::new of that
Ipv4RoundTrip ==
    /\ ip_call.fn = "round_trip"
    /\ LET parsed == new(ip_call.text)
       IN IF parsed.ok
          THEN Returns(Ok([parsed |-> parsed.v, text |-> fmt(parsed.v),
                           reparsed |-> new(fmt(parsed.v))]))
          ELSE Returns(Err)

\* c.lo(), c.hi() and c.contains(c.addr)
Ipv4Bounds ==
    /\ ip_call.fn = "bounds"
    /\ Returns(bounds_u32(Ipv4(ip_call.addr, ip_call.mask), ip_call.addr))

IpAfterSubnet ==
    /\ ip_call.fn = "ip_after_subnet"
    /\ Returns(ip_after_subnet_u32(ip_call.addr, ip_call.mask))

NextIpv4 ==
    \/ Ipv4New \/ Ipv4Deserialize \/ NumAzHosts \/ NextSubnetIpv4 \/ Ipv4Cmp
    \/ Ipv4RoundTrip \/ Ipv4Bounds \/ IpAfterSubnet

SpecIpv4 == InitIpv4 /\ [][NextIpv4]_vars

----------------------------------------------------------------------------
(* Properties of models/ipv4.rs *)

Returned(f) == ip_pc = "ret" /\ ip_call.fn = f

\* the prefix a text writes, when its last piece is a number
WrittenPrefix(text) ==
    IF Len(text.parts) = 2 /\ text.parts[2].digits THEN text.parts[2].n ELSE 0

\* C15: every Ipv4 value that Ipv4::new or Deserialize yields has a prefix
\* length of at most 32, and a text whose prefix is greater than 32 yields an
\* error, never a value.
C15_PrefixAtMost32 ==
    (Returned("new") \/ Returned("deserialize")) =>
        /\ ip_ret.ok => ip_ret.v.mask <= 32
        /\ WrittenPrefix(ip_call.text) > 32 => ~ip_ret.ok

\* 2^n for n <= 32 as the limbs of a u64
PowerOfTwo(n) == U64(IF n >= 16 THEN 2 ^ (n - 16) ELSE 0, IF n < 16 THEN 2 ^ n ELSE 0)

\* x + 5 on limbs, with the carry
PlusFive(x) == U64(x.hi + ((x.lo + 5) \div 65536), (x.lo + 5) % 65536)

\* C18: num_az_hosts returns 2^(32-p) - 5 for every prefix p in 0..29 and an
\* error for every p >= 30, also above 32; the value never wraps.
C18_HostCount ==
    Returned("num_az_hosts") =>
        IF ip_call.len <= 29
        THEN /\ ip_ret.ok
             /\ ip_ret.v.lo \in 0..65535 /\ ip_ret.v.hi \in 0..65535
             /\ PlusFive(ip_ret.v) = PowerOfTwo(32 - ip_call.len)
        ELSE ~ip_ret.ok

C18_Witness ==
    /\ Returned("num_az_hosts")
    /\ ip_call.len = 0
    /\ ip_ret = Ok(U64(65535, 65531))

\* the broadcast address of a CIDR of the model's window: the last address of
\* the block of its prefix that holds its address
LastOfBlock(c) == (c.addr \div (2 ^ (32 - c.mask))) * (2 ^ (32 - c.mask))
                      + (2 ^ (32 - c.mask)) - 1

\* addr is a network address for prefix r
AlignedTo(addr, r) == IF r = 0 THEN addr = 0 ELSE addr % (2 ^ (32 - r)) = 0

\* C19: next_subnet_ipv4(c, Some(r)) returns a block of prefix r; its address
\* is the first address after the r-sized block that holds c.addr when
\* r <= c.mask, and the first address after the broadcast address of c when
\* r > c.mask; the address is above the broadcast address of c and is a
\* network address for prefix r.
C19_NextBlock ==
    (Returned("next_subnet_ipv4") /\ ip_call.mask # <<>> /\ ip_ret.ok) =>
        LET c == ip_call.ipv4
            r == ip_call.mask[1]
        IN /\ ip_ret.v.mask = r
           /\ ip_ret.v.addr > LastOfBlock(c)
           /\ AlignedTo(ip_ret.v.addr, r)
           /\ r > c.mask => ip_ret.v.addr = LastOfBlock(c) + 1
           /\ (r <= c.mask /\ r > 0) => ip_ret.v.addr = LastOfBlock(Ipv4(c.addr, r)) + 1

\* C20: the order on Ipv4 is total and lexicographic on (addr, mask) and
\* agrees with ==: a == b iff both fields are equal iff cmp is Equal; a
\* block and a smaller block inside it are not equal, and of two values with
\* one address the one with the larger prefix is the greater.
C20_LexicographicOrder ==
    Returned("cmp") =>
        LET a == ip_call.a
            b == ip_call.b
            r == ip_ret.v
        IN /\ r.ab \in {"Less", "Equal", "Greater"}
           /\ (r.ab = "Less") = (r.ba = "Greater")
           /\ (r.ab = "Equal") = (r.ba = "Equal")
           /\ (r.ab = "Less" /\ r.bc = "Less") => r.ac = "Less"
           /\ (r.ab = "Equal" /\ r.bc = "Equal") => r.ac = "Equal"
           /\ r.eq_ab = (a.addr = b.addr /\ a.mask = b.mask)
           /\ r.eq_ab = (r.ab = "Equal")
           /\ a.addr < b.addr => r.ab = "Less"
           /\ (a.addr = b.addr /\ a.mask < b.mask) => r.ab = "Less"
           /\ (a.mask < b.mask /\ LastOfBlock(b) <= LastOfBlock(a)
               /\ LastOfBlock(a) - (2 ^ (32 - a.mask)) < LastOfBlock(b) - (2 ^ (32 - b.mask)) + 1)
              => ~r.eq_ab

C20_Witness ==
    /\ Returned("cmp")
    /\ ip_call.a = Ipv4(Ipv4Addr(10, 0, 0, 0), 24)
    /\ ip_call.b = Ipv4(Ipv4Addr(10, 0, 0, 0), 26)
    /\ ip_call.c = Ipv4(Ipv4Addr(10, 0, 0, 64), 26)
    /\ ip_ret.v.ab = "Less" /\ ip_ret.v.bc = "Less" /\ ip_ret.v.ac = "Less"
    /\ ~ip_ret.v.eq_ab

----------------------------------------------------------------------------
(* filter_excluded_vnet_cidrs called on a record list *)

ExcludeCidrC == Ipv4(Ipv4Addr(10, 2, 0, 0), 16)
\* 10.0.0.5/16: the block of OverlapCidrA written with host bits
ExcludeCidrAx == Ipv4(Ipv4Addr(10, 0, 0, 5), 16)

ExcludeVnetLists ==
    {<<OverlapCidrA>>, <<OverlapCidrB>>, <<ExcludeCidrC>>,
     <<ExcludeCidrC, OverlapCidrA>>, <<ExcludeCidrAx>>}

TextA == CidrText(FALSE, <<(<<10, 0, 0, 0>>), [digits |-> TRUE, n |-> 16]>>)
TextAx == CidrText(FALSE, <<(<<10, 0, 0, 5>>), [digits |-> TRUE, n |-> 16]>>)
TextPaddedC == CidrText(TRUE, <<(<<10, 2, 0, 0>>), [digits |-> TRUE, n |-> 16]>>)
TextTooLong == CidrText(FALSE, <<(<<10, 1, 0, 0>>), [digits |-> TRUE, n |-> 33]>>)

ExcludeLists ==
    {None, Some(<<>>), Some(<<TextA>>), Some(<<TextAx, TextTooLong>>),
     Some(<<TextTooLong, TextPaddedC>>)}

ExcludeInputs ==
    UNION {[1..n -> [id : OverlapIdentities, vc : ExcludeVnetLists]] :
              n \in 0..MaxVnetRecords}

InitExclude ==
    /\ \E rs \in ExcludeInputs :
          ex_data = [k \in 1..Len(rs) |->
                        Subnet(rs[k].id[1], rs[k].vc, "snet",
                               Some(Ipv4(Ipv4Addr(10, 0, 0, 0), 24)), rs[k].id[2],
                               "Sub", k)]
    /\ ex_excluded \in ExcludeLists
    /\ ex_out = <<>>
    /\ ex_pc = "input"
    /\ FbIdle /\ GfIdle /\ DdIdle /\ OvIdle /\ FlIdle /\ IpIdle /\ VnIdle /\ GrIdle
    /\ overflow_checks = FALSE

FilterExcludedVnetCidrs ==
    /\ ex_pc = "input"
    /\ ex_out' = unwrap_ok(filter_excluded_vnet_cidrs(ex_data, ex_excluded))
    /\ ex_pc' = "done"
    /\ UNCHANGED <<ex_data, ex_excluded, fbVars, gfVars, ddVars, ovVars, flVars, ipVars,
                   overflow_checks, vnVars, grVars>>

NextExclude == FilterExcludedVnetCidrs

SpecExclude == InitExclude /\ [][NextExclude]_vars

----------------------------------------------------------------------------
(* Properties of filter_excluded_vnet_cidrs *)

\* the CIDRs the excluded list names: its texts of the form address/prefix
\* with a prefix of at most 32, the default list when none is passed
ExcludedMembers ==
    LET texts == IF ex_excluded = <<>> THEN default_vnet_cidrs_to_exclude
                 ELSE ex_excluded[1]
    IN {Ipv4(Ipv4Addr(t.parts[1][1], t.parts[1][2], t.parts[1][3], t.parts[1][4]),
             t.parts[2].n) :
           t \in {texts[k] : k \in {n \in 1..Len(texts) : texts[n].parts[2].n <= 32}}}

\* the record lists none of the excluded CIDRs, address and prefix compared
ListsNoExcluded(s) ==
    \A k \in 1..Len(s.vnet_cidr) :
        \A e \in ExcludedMembers :
            s.vnet_cidr[k].addr # e.addr \/ s.vnet_cidr[k].mask # e.mask

\* C13: filter_excluded_vnet_cidrs returns exactly the input records whose
\* VNet CIDR list holds no CIDR equal, in address and prefix, to a member of
\* the excluded list, in their original relative order; conflicts between
\* VNets play no part.
C13_ExactlyNonExcluded ==
    ex_pc = "done" =>
        /\ \A j \in 1..Len(ex_out) :
              /\ ex_out[j].src_index \in 1..Len(ex_data)
              /\ ex_out[j] = ex_data[ex_out[j].src_index]
        /\ \A j \in 1..(Len(ex_out) - 1) : ex_out[j].src_index < ex_out[j + 1].src_index
        /\ {ex_out[j].src_index : j \in 1..Len(ex_out)}
              = {k \in 1..Len(ex_data) : ListsNoExcluded(ex_data[k])}

\* two VNets in conflict on a CIDR that is not excluded are both kept, a
\* record behind them is dropped for an excluded CIDR that is not its first
C13_Witness ==
    /\ ex_pc = "done"
    /\ ex_excluded = Some(<<TextA>>)
    /\ Len(ex_data) = 3 /\ Len(ex_out) = 2
    /\ ex_data[1].vnet_cidr = <<ExcludeCidrC>> /\ ex_data[1].subscription_id = "sub-1"
    /\ ex_data[2].vnet_cidr = <<ExcludeCidrC, OverlapCidrA>>
    /\ ex_data[3].vnet_cidr = <<ExcludeCidrC>> /\ ex_data[3].subscription_id = "sub-2"
    /\ ex_out = <<ex_data[1], ex_data[3]>>

----------------------------------------------------------------------------
(* Provenance of the records given to de_duplicate_subnets *)

\* C14: de_duplicate_subnets aborts when two input records carry the same
\* (src_index, block_id) pair: a call that returns had no two such records.
C14_AbortsOnRepeatedProvenance ==
    dd_pc = "once" =>
        \A k, n \in 1..Len(dd_input) :
            (/\ dd_input[k].src_index = dd_input[n].src_index
             /\ dd_input[k].block_id = dd_input[n].block_id) => k = n

----------------------------------------------------------------------------
(* Parsing and formatting *)

\* a.b.c.d/n with octets up to 255 and n up to 32
ValidText(text) ==
    /\ Len(text.parts) = 2
    /\ Len(text.parts[1]) = 4
    /\ \A k \in 1..4 : text.parts[1][k] <= 255
    /\ text.parts[2].digits
    /\ text.parts[2].n <= 32

\* C21: every valid CIDR text a.b.c.d/n, n in 0..32, parses, and parsing the
\* formatted value gives the parsed value again; the formatted text carries
\* the address as written (not its network address) and the prefix as
\* written.
C21_RoundTrip ==
    (Returned("round_trip") /\ ValidText(ip_call.text))
        => /\ ip_ret.ok
           /\ ip_ret.v.reparsed = Ok(ip_ret.v.parsed)
           /\ ip_ret.v.text.parts[1] = ip_call.text.parts[1]
           /\ ip_ret.v.text.parts[2].n = ip_call.text.parts[2].n

\* " 10.0.0.5/024 " comes back as 10.0.0.5/24, written "10.0.0.5/24"
C21_Witness ==
    /\ Returned("round_trip")
    /\ ip_call.text.pad
    /\ ip_call.text.parts = <<<<10, 0, 0, 5>>, [digits |-> TRUE, n |-> 24, zeros |-> 1]>>
    /\ ip_ret.ok
    /\ ip_ret.v.reparsed = Ok(Ipv4(Ipv4Addr(10, 0, 0, 5), 24))
    /\ ip_ret.v.text # ip_call.text

----------------------------------------------------------------------------
(* Network address, broadcast address and the address after a block *)

\* 2^(32 - p) as a number of 2^16 (hi) and units (lo); 2^32 is hi = 65536
BlockSize(p) ==
    IF p <= 16 THEN [hi |-> 2 ^ (16 - p), lo |-> 0] ELSE [hi |-> 0, lo |-> 2 ^ (32 - p)]

\* x + y of two such numbers, not reduced modulo 2^32
Plus(x, y) ==
    [hi |-> x.hi + y.hi + (x.lo + y.lo) \div 65536, lo |-> (x.lo + y.lo) % 65536]

InU32(x) == x.hi \in 0..65535 /\ x.lo \in 0..65535

\* C22: for a CIDR c of prefix at most 32 the network address is at most
\* c's address, which is at most the broadcast address; both are 32-bit
\* values, broadcast + 1 = network + 2^(32 - prefix), and c contains its own
\* address.
C22_NetworkBelowBroadcast ==
    (Returned("bounds") /\ ip_call.mask <= 32)
        => /\ ip_ret.ok
           /\ le_u32(ip_ret.v.lo, ip_call.addr)
           /\ le_u32(ip_call.addr, ip_ret.v.hi)
           /\ InU32(ip_ret.v.lo) /\ InU32(ip_ret.v.hi)
           /\ Plus(ip_ret.v.hi, [hi |-> 0, lo |-> 1])
                = Plus(ip_ret.v.lo, BlockSize(ip_call.mask))
           /\ ip_ret.v.contains

\* 192.168.1.42/0 spans 0.0.0.0 .. 255.255.255.255
C22_Witness ==
    /\ Returned("bounds")
    /\ ip_call.addr = U32(49320, 298)
    /\ ip_call.mask = 0
    /\ ip_ret = Ok([lo |-> U32(0, 0), hi |-> U32(65535, 65535), contains |-> TRUE])

\* C24: for a prefix p in 0..32 ip_after_subnet(addr, p) returns network(addr,
\* p) + 2^(32 - p) when that is at most 255.255.255.255, and an error when it
\* is more; it never panics and never returns an address that is not above
\* addr.
C24_AfterSubnetNeverWraps ==
    (Returned("ip_after_subnet") /\ ip_call.mask <= 32)
        => LET after == Plus(cut_addr_u32(ip_call.addr, ip_call.mask).v,
                             BlockSize(ip_call.mask))
           IN IF InU32(after)
              THEN /\ ip_ret = Ok(after)
                   /\ ~le_u32(ip_ret.v, ip_call.addr)
              ELSE ip_ret = Err

----------------------------------------------------------------------------
(* de_duplicate_subnets and the order of its input *)

KeysOf(data) == {CidrSubKey(data[k]) : k \in 1..Len(data)}

\* C25: whatever the order of the input records, de-duplication returns the
\* same number of records and the same set of (subnet_cidr, subscription_id)
\* keys.
C25_PermutationInvariant ==
    dd_pc = "once" =>
        \A p \in Permutations(1..Len(dd_input)) :
            LET permuted == [k \in 1..Len(dd_input) |-> dd_input[p[k]]]
                out == de_duplicate_subnets(permuted, dd_ignore)
            IN /\ Len(out) = Len(dd_data)
               /\ KeysOf(out) = KeysOf(dd_data)

\* two records of one key with a record of another subscription and the
\* same CIDR between them: two records come back
C25_Witness ==
    /\ dd_pc = "once"
    /\ Len(dd_input) = 3
    /\ Eligible = {1, 2, 3}
    /\ dd_input[1].subnet_cidr = dd_input[2].subnet_cidr
    /\ CidrSubKey(dd_input[1]) = CidrSubKey(dd_input[3])
    /\ CidrSubKey(dd_input[1]) # CidrSubKey(dd_input[2])
    /\ Len(dd_data) = 2

----------------------------------------------------------------------------
(* Termination of find_biggest_subnet *)

\* C26: find_biggest_subnet comes to an end for every start address, start
\* mask up to 32 and target: it returns or aborts; when start is below the
\* target's network address it returns a prefix of at most 32, and when it
\* is not (no prefix up to 32 fits) it aborts, and next_mask never passes 33.
C26_Terminates ==
    /\ <>(fb_pc \in {"ret", "panic"})
    /\ [](fb_pc \in {"ret", "panic"}
            => IF fb_in.start_ip < lo(fb_in.below).v
               THEN fb_pc = "ret" /\ fb_out.ok /\ fb_out.v <= 32
               ELSE fb_pc = "panic")
    /\ [](fb_mask <= 33)

\* start 10.0.0.16 is not below 10.0.0.0/24: the loop runs to prefix 33,
\* where hi() panics
C26_Witness ==
    /\ fb_pc = "panic"
    /\ fb_in.start_ip = Ipv4Addr(10, 0, 0, 16)
    /\ fb_in.below = Ipv4(Ipv4Addr(10, 0, 0, 0), 24)
    /\ fb_mask = 33

----------------------------------------------------------------------------
(* get_vnets called on a record list *)

\* VNets of one name in three subscriptions, two of which carry the same
\* display name
VnetSubscriptions == {<<"sub-1", "Sub One">>, <<"sub-2", "Sub Two">>, <<"sub-3", "Sub One">>}

VnetInputs ==
    UNION {[1..n -> [vnet : {"vnet-a", "vnet-b"}, sub : VnetSubscriptions]] :
              n \in 1..MaxVnetRecords}

InitVnets ==
    /\ \E rs \in VnetInputs :
          vn_data = [k \in 1..Len(rs) |->
                        Subnet(rs[k].vnet, <<Ipv4(Ipv4Addr(10, 0, 0, 0), 16)>>, "snet",
                               Some(Ipv4(Ipv4Addr(10, 0, 0, 0) + 16 * k, 28)),
                               rs[k].sub[1], rs[k].sub[2], k)]
    /\ vn_vnets = <<>>
    /\ vn_pc = "call"
    /\ FbIdle /\ GfIdle /\ DdIdle /\ OvIdle /\ FlIdle /\ ExIdle /\ IpIdle /\ GrIdle
    /\ overflow_checks = FALSE

GetVnets ==
    /\ vn_pc = "call"
    /\ vn_vnets' = get_vnets(vn_data)
    /\ vn_pc' = "done"
    /\ UNCHANGED <<vn_data, fbVars, gfVars, ddVars, ovVars, flVars, exVars, ipVars,
                   grVars, overflow_checks>>

NextVnets == GetVnets

SpecVnets == InitVnets /\ [][NextVnets]_vars

\* the records k and n are in the subnet list of one group
SameGroup(k, n) ==
    \E key \in DOMAIN vn_vnets :
        /\ \E a \in 1..Len(vn_vnets[key].subnets) : vn_vnets[key].subnets[a] = k
        /\ \E b \in 1..Len(vn_vnets[key].subnets) : vn_vnets[key].subnets[b] = n

\* the places <<key, a>> of all subnet lists
GroupPlaces ==
    UNION {{<<key, a>> : a \in 1..Len(vn_vnets[key].subnets)} : key \in DOMAIN vn_vnets}

\* C23: two records are in the same VNet group exactly when they have the
\* same vnet_name and the same subscription_id, and every record is in
\* exactly one place of one group (the group sizes add up to the number of
\* records).
C23_GroupsByNameAndSubscriptionId ==
    vn_pc = "done" =>
        /\ \A k, n \in 1..Len(vn_data) :
              SameGroup(k, n) <=> (/\ vn_data[k].vnet_name = vn_data[n].vnet_name
                                   /\ vn_data[k].subscription_id = vn_data[n].subscription_id)
        /\ \A k \in 1..Len(vn_data) :
              Cardinality({pl \in GroupPlaces : vn_vnets[pl[1]].subnets[pl[2]] = k}) = 1
        /\ Cardinality(GroupPlaces) = Len(vn_data)

----------------------------------------------------------------------------
(* run_az_cli_graph against a source of pages *)

\* the commands of one fetch the model follows
MaxPages == 4

\* what the source hands out for a command: a failure of the az command, or
\* a page with its records and its skip token
GraphTokens == {"tokA", "tokB"}
GraphPages ==
    {[ok |-> FALSE]}
    \cup {[ok |-> TRUE, v |-> [skip_token |-> st, count |-> n]] :
             st \in {None} \cup {Some(tk) : tk \in GraphTokens}, n \in {0, 2}}

InitGraph ==
    /\ skip_token_param = <<>>
    /\ gr_commands = <<>>
    /\ gr_data = <<>>
    /\ count_blocks_returned = 0
    /\ gr_pc = "loop"
    /\ FbIdle /\ GfIdle /\ DdIdle /\ OvIdle /\ FlIdle /\ ExIdle /\ IpIdle /\ VnIdle
    /\ overflow_checks = FALSE

\* one turn of "while skip_token_param != "--skip-token null""
GraphPage ==
    /\ gr_pc = "loop"
    /\ skip_token_param # <<"--skip-token", "null">>
    /\ Len(gr_commands) < MaxPages
    /\ gr_commands' = Append(gr_commands, skip_token_param)
    /\ \E output \in GraphPages :
          IF ~output.ok
          THEN /\ gr_pc' = "err"
               /\ UNCHANGED <<skip_token_param, gr_data, count_blocks_returned>>
          ELSE IF skip_token_new(output.v.skip_token) = skip_token_param
          THEN /\ gr_pc' = "err"
               /\ UNCHANGED <<skip_token_param, gr_data, count_blocks_returned>>
          ELSE /\ skip_token_param' = skip_token_new(output.v.skip_token)
               /\ gr_data' = extend(gr_data, output.v.count, count_blocks_returned)
               /\ count_blocks_returned' = count_blocks_returned + 1
               /\ gr_pc' = "loop"
    /\ UNCHANGED <<fbVars, gfVars, ddVars, ovVars, flVars, exVars, ipVars, vnVars,
                   overflow_checks>>

\* the loop is over; src_index counts the records pushed, so it is
\* data.data.len() and Ok(data) is returned
GraphDone ==
    /\ gr_pc = "loop"
    /\ skip_token_param = <<"--skip-token", "null">>
    /\ gr_pc' = "done"
    /\ UNCHANGED <<skip_token_param, gr_commands, gr_data, count_blocks_returned,
                   fbVars, gfVars, ddVars, ovVars, flVars, exVars, ipVars, vnVars,
                   overflow_checks>>

NextGraph == GraphPage \/ GraphDone

SpecGraph == InitGraph /\ [][NextGraph]_vars

\* C27: the fetch asks for pages until one comes without a skip token, and
\* never runs a command with a skip token it has run a command with before:
\* a repeated token ends the fetch with an error.
C27_NoTokenRequestedTwice ==
    /\ \A a, b \in 1..Len(gr_commands) : gr_commands[a] = gr_commands[b] => a = b
    /\ gr_pc = "done" => skip_token_param = <<"--skip-token", "null">>

----------------------------------------------------------------------------
(* What filter_overlapping_vnets leaves and what it leaves alone *)

\* the identities find_overlapping_vnets names in a conflict on the input
FilterClaimants == UNION {c.vnets : c \in FilterConflicts}

\* the identities of the returned records that list cidr, by the VNet CIDR
\* list find_overlapping_vnets reads for an identity
Survivors(cidr) ==
    {id \in DOMAIN seen_vnets(fl_out) :
        \E k \in 1..Len(seen_vnets(fl_out)[id].vnet_cidr) :
            seen_vnets(fl_out)[id].vnet_cidr[k] = cidr}

\* C28: find_overlapping_vnets reports no conflict on the records
\* filter_overlapping_vnets returns, whatever the HashMap order: every CIDR
\* is listed by at most one VNet identity that is left.
C28_NoConflictLeft ==
    fl_pc = "filtered" =>
        /\ \A order \in KeyOrders(Keys(fl_out)) :
              find_overlapping_vnets(fl_out, order) = <<>>
        /\ \A cidr \in {OverlapCidrA, OverlapCidrB} : Cardinality(Survivors(cidr)) <= 1

\* two VNets list 10.0.0.0/16 in the input, one of them is left
C28_Witness ==
    /\ fl_pc = "filtered"
    /\ \E c \in FilterConflicts : c.cidr = OverlapCidrA /\ Cardinality(c.vnets) = 2
    /\ Cardinality(Survivors(OverlapCidrA)) = 1
    /\ Len(fl_out) < Len(fl_data)

\* C29: filter_overlapping_vnets returns every record of a VNet identity
\* that no conflict on the input names, returns the records it keeps in the
\* order of the input, and returns the input itself when there is no
\* conflict.
C29_OthersUntouched ==
    fl_pc = "filtered" =>
        /\ \A k \in 1..Len(fl_data) :
              vnet_key(fl_data[k]) \notin FilterClaimants => fl_data[k] \in Range(fl_out)
        /\ fl_out = SelectSeq(fl_data, LAMBDA s : s \in Range(fl_out))
        /\ FilterConflicts = {} => fl_out = fl_data

\* a conflict removes a VNet, and the record of a VNet of the same name in
\* another subscription, which is in no conflict, stays
C29_Witness ==
    /\ fl_pc = "filtered"
    /\ Len(fl_out) < Len(fl_data)
    /\ \E k, n \in 1..Len(fl_data) :
          /\ fl_data[k] \notin Range(fl_out)
          /\ fl_data[n].vnet_name = fl_data[k].vnet_name
          /\ vnet_key(fl_data[n]) \notin FilterClaimants
          /\ fl_data[n] \in Range(fl_out)

----------------------------------------------------------------------------
(* The gap rows of a report over aligned subnets *)

\* the records that carry a subnet CIDR
RealPlaces == {k \in 1..Len(gf_data) : is_some(gf_data[k].subnet_cidr)}
RealCidr(k) == unwrap(gf_data[k].subnet_cidr)

\* default gap mask <= 29, first next_ip a multiple of 8, the real subnets
\* network-aligned with prefix <= 29, ascending and pairwise disjoint
AlignedReport ==
    /\ gap_cidr_mask <= 29
    /\ gf_start % 8 = 0
    /\ \A k \in RealPlaces :
          /\ RealCidr(k).mask <= 29
          /\ lo(RealCidr(k)).v = RealCidr(k).addr
    /\ \A k, n \in RealPlaces : k < n => hi(RealCidr(k)).v < lo(RealCidr(n)).v

GapRows == {k \in 1..Len(output_rows) : output_rows[k].gap = "-gap-"}

\* the record the loop is at, or stopped at
AtRealRecord ==
    /\ gf_pc \in {"loop", "panic"}
    /\ gf_i < Len(gf_data)
    /\ gf_i + 1 \in RealPlaces

\* C30: in a report with default gap mask <= 29, first next_ip a multiple
\* of 8 and aligned, ascending, disjoint real subnets of prefix <= 29, every
\* gap row has a prefix from the default mask to 29 and a host count, and
\* the gap loop of a record that passed the entry assertion does not abort.
C30_GapRowsUpTo29 ==
    AlignedReport =>
        /\ \A k \in GapRows :
              /\ unwrap(output_rows[k].subnet_cidr).mask \in gap_cidr_mask..29
              /\ num_az_hosts(unwrap(output_rows[k].subnet_cidr).mask).ok
              /\ output_rows[k].az_hosts =
                     num_az_hosts(unwrap(output_rows[k].subnet_cidr).mask).v
        /\ (AtRealRecord /\ entry_check(next_ip, RealCidr(gf_i + 1))) =>
              gap_loop(gf_data[gf_i + 1], RealCidr(gf_i + 1), next_ip,
                       gap_cidr_mask, <<>>).ok

\* a finished report with a /29 gap row above the default mask and a gap
\* row of the default mask
C30_Witness ==
    /\ AlignedReport
    /\ gf_pc = "done"
    /\ \E k \in GapRows :
          /\ unwrap(output_rows[k].subnet_cidr).mask = 29
          /\ gap_cidr_mask < 29
    /\ \E k \in GapRows : unwrap(output_rows[k].subnet_cidr).mask = gap_cidr_mask

====
